---- MODULE Spec2Model ----
(***************************************************************************)
(* Seeded stochastic simulation and aggregation pipeline of the            *)
(* event-based hazard calculator (RuptureCollector, compute_ses,           *)
(* compute_gmf, EventBasedHazardCalculator) and the asset/site association *)
(* of the risk calculator (assoc_site_assets, RiskCalculator.pre_execute). *)
(*                                                                         *)
(* Three specifications share the variables of the module:                 *)
(*   SpecColl  one RuptureCollector driven by arbitrary add / clear /      *)
(*             get_ruptures calls;                                         *)
(*   Spec      two runs of the same hazard job (same master seed, same     *)
(*             ordered source list), the first with the sources in one     *)
(*             block, the second with them cut into contiguous blocks;     *)
(*   SpecRisk  RiskCalculator.pre_execute with its assoc_site_assets tasks.*)
(* Each specification holds the variables of the other two at their idle   *)
(* values.                                                                 *)
(***************************************************************************)
EXTENDS Integers, Sequences, FiniteSets, TLC

(***************************************************************************)
(* Bounds of the model.                                                    *)
(***************************************************************************)
\* add calls made on the collector of SpecColl between two clear calls
MaxAdds == 3

\* inputs of the add calls of SpecColl
CollSes == {1, 2}
CollRuptures == {<<1, 1>>, <<1, 2>>, <<2, 1>>}
CollCounts == {0, 1, 2}

VARIABLES
    dd,        \* SpecColl: RuptureCollector._dd, (src_id, rup) -> <<(ses, n), ...>>
    addlog,    \* SpecColl: the add calls made since construction or clear()
    yielded,   \* SpecColl: what the last get_ruptures() iteration yielded
    calls,     \* SpecColl: get_ruptures() iterations since the last add/clear
    random_seed,     \* Spec: hc.random_seed, the master seed of both runs
    hc_gmf,          \* Spec: hc.ground_motion_fields
    source_list,     \* Spec: the ordered source list both runs are cut from
    source_blocks,   \* Spec: run -> self.source_blocks_per_ltpath[path]
    gen,             \* Spec: run -> state of the task_arg_gen generator
    tasks,           \* Spec: run -> (rlz, task_no) -> the compute_ses task
    collectors,      \* Spec: run -> self.collectors (ses_coll -> list)
    ses_rupture,     \* Spec: run -> the SESRupture rows of the job
    gmf_tasks,       \* Spec: run -> the compute_gmf tasks, in dispatch order
    gmf_data,        \* Spec: run -> the GmfData rows of the job
    phase,           \* Spec: run -> "execute", "post_execute" or "complete"
    exposure,               \* SpecRisk: asset id -> its ExposureData row
    taxonomies_from_model,  \* SpecRisk: rc.taxonomies_from_model
    risk_models,            \* SpecRisk: the taxonomies of self.risk_models
    validator_errors,       \* SpecRisk: the validators whose get_error() is set
    taxonomies_asset_count, \* SpecRisk: self.taxonomies_asset_count
    assoc,                  \* SpecRisk: taxonomy -> its assoc_site_assets task
    site_asset_ids,         \* SpecRisk: the accumulator of map_reduce
    site_assets,            \* SpecRisk: self.site_assets
    missing_assets,         \* SpecRisk: the missing assets that are logged
    raised,                 \* SpecRisk: the error pre_execute raised, if any
    task_args,              \* SpecRisk: what task_arg_gen yielded, in order
    rphase,                 \* SpecRisk: "init", "assoc", "done", "dispatched", "failed"
    getter_class,      \* SpecGetter: the class of the hazard getter
    getter_assets,     \* SpecGetter: self.assets, a list of asset ids
    exposure_data,     \* SpecGetter: riski.exposure_data, asset id -> row
    gmf_store,         \* SpecGetter: site id -> its GmfData rows of the IMT
    sites_assets,      \* SpecGetter: cursor.fetchall() of assets_gen
    site_assets_list,  \* SpecGetter: list(self.assets_gen()) of get_data
    pos,               \* SpecGetter: the sites get_data has been through
    all_assets,        \* SpecGetter: all_assets of get_data
    all_gmvs,          \* SpecGetter: all_gmvs (all_curves) of get_data
    site_gmv,          \* SpecGetter: site, values and ruptures of each get_gmvs call
    getter_log,        \* SpecGetter: the warnings logged, in order
    getter_result,     \* SpecGetter: what __call__ returned
    gphase,            \* SpecGetter: "init", "loop" or "done"
    save_unit,         \* SpecSave: "save_ses_ruptures", "_save_gmfs", "event_based_bcr"
    to_create,         \* SpecSave: the records of the unit, in creation order
    created,           \* SpecSave: how many of them the loop has been through
    pending,           \* SpecSave: the rows written in the open transaction
    inserter_values,   \* SpecSave: the rows the CacheInserter holds
    table,             \* SpecSave: the committed rows of the table
    save_state,        \* SpecSave: "init", "open", "committed", "rolled back"
    cs_src_seeds,      \* SpecSes: src_seeds of a compute_ses task
    cs_rnd,            \* SpecSes: the state of rnd = random.Random()
    cs_rupts,          \* SpecSes: rupts of the source at hand
    cs_iter_calls,     \* SpecSes: source -> calls of its iter_ruptures()
    cs_np_seeds,       \* SpecSes: (source, ses, value) of each numpy.random.seed
    cs_dd,             \* SpecSes: collector._dd
    cs_i,              \* SpecSes: the pairs of src_seeds the loop has taken
    cs_k,              \* SpecSes: the SES of the source at hand gone through
    cs_pc,             \* SpecSes: "source", "ses" or "returned"
    cs_all_ses,        \* SpecSes: all_ses of save_ses_ruptures, as the store gave it
    cs_saved,          \* SpecSes: the SESRupture records created, in order
    bcr_exposure,      \* SpecBcr: riski.exposure_data, asset id -> row
    bcr_assets,        \* SpecBcr: the assets of both getters of a BCRGetter
    bcr_orig,          \* SpecBcr: what self.getter_orig(monitor) returned
    bcr_retro,         \* SpecBcr: what self.getter_retro(monitor) returned
    bcr_result,        \* SpecBcr: what BCRGetter.__call__ returned
    bcr_pc             \* SpecBcr: "init", "orig" or "done"

collVars == <<dd, addlog, yielded, calls>>

jobVars == <<random_seed, hc_gmf, source_list, source_blocks, gen, tasks,
             collectors, ses_rupture, gmf_tasks, gmf_data, phase>>

riskVars == <<exposure, taxonomies_from_model, risk_models, validator_errors,
              taxonomies_asset_count, assoc, site_asset_ids, site_assets,
              missing_assets, raised, task_args, rphase>>

getterVars == <<getter_class, getter_assets, exposure_data, gmf_store, sites_assets,
                site_assets_list, pos, all_assets, all_gmvs, site_gmv,
                getter_log, getter_result, gphase>>

saveVars == <<save_unit, to_create, created, pending, inserter_values, table,
              save_state>>

sesVars == <<cs_src_seeds, cs_rnd, cs_rupts, cs_iter_calls, cs_np_seeds, cs_dd,
             cs_i, cs_k, cs_pc, cs_all_ses, cs_saved>>

bcrVars == <<bcr_exposure, bcr_assets, bcr_orig, bcr_retro, bcr_result, bcr_pc>>

vars == <<collVars, jobVars, riskVars, getterVars, saveVars, sesVars, bcrVars>>

\* what the actions of one specification leave alone
notCollVars == <<jobVars, riskVars, getterVars, saveVars, sesVars, bcrVars>>

notJobVars == <<collVars, riskVars, getterVars, saveVars, sesVars, bcrVars>>

notRiskVars == <<collVars, jobVars, getterVars, saveVars, sesVars, bcrVars>>

notGetterVars == <<collVars, jobVars, riskVars, saveVars, sesVars, bcrVars>>

notSaveVars == <<collVars, jobVars, riskVars, getterVars, sesVars, bcrVars>>

notSesVars == <<collVars, jobVars, riskVars, getterVars, saveVars, bcrVars>>

notBcrVars == <<collVars, jobVars, riskVars, getterVars, saveVars, sesVars>>

(***************************************************************************)
(* Helpers on sequences.                                                   *)
(***************************************************************************)
RECURSIVE SumSeq(_)
SumSeq(s) == IF s = <<>> THEN 0 ELSE s[1] + SumSeq(Tail(s))

RECURSIVE Concat(_)
Concat(ss) == IF ss = <<>> THEN <<>> ELSE ss[1] \o Concat(Tail(ss))

\* A loop variable's value is computed at each iteration, as in the code,
\* and not left as an unevaluated expression that grows with the loop
Evaluated(v) == v = v

Range(s) == {s[i] : i \in DOMAIN s}

(***************************************************************************)
(* RuptureCollector.  A rupture object is written <<s, i>>: the i-th       *)
(* rupture that source s yields from iter_ruptures().  Keys of _dd are     *)
(* (src_id, rup) tuples; Python orders them by src_id first and by the     *)
(* rupture second, and the rupture order is taken to be the order of the   *)
(* source's rupture list.                                                  *)
(***************************************************************************)
EmptyDD == <<>>

RupLess(r1, r2) == r1[1] < r2[1] \/ (r1[1] = r2[1] /\ r1[2] < r2[2])

KeyLess(k1, k2) == k1[1] < k2[1] \/ (k1[1] = k2[1] /\ RupLess(k1[2], k2[2]))

\* sorted(self._dd): the keys in ascending tuple order
RECURSIVE sorted(_)
sorted(S) ==
    IF S = {} THEN <<>>
    ELSE LET m == CHOOSE x \in S : \A y \in S \ {x} : KeyLess(x, y)
         IN  <<m>> \o sorted(S \ {m})

\* collections.defaultdict(list): reading d[k] creates the key when missing
DDGet(d, k) == IF k \in DOMAIN d THEN d ELSE d @@ (k :> <<>>)

add_unguarded(d, ses_ordinal, src_id, rup, num_occurrencies) ==
    LET k  == <<src_id, rup>>
        d1 == DDGet(d, k)
    IN  [d1 EXCEPT ![k] = Append(@, <<ses_ordinal, num_occurrencies>>)]

add_key_always(d, ses_ordinal, src_id, rup, num_occurrencies) ==
    LET k  == <<src_id, rup>>
        d1 == DDGet(d, k)
    IN  IF num_occurrencies # 0
        THEN [d1 EXCEPT ![k] = Append(@, <<ses_ordinal, num_occurrencies>>)]
        ELSE d1

\* RuptureCollector.add
add(d, ses_ordinal, src_id, rup, num_occurrencies) ==
    IF num_occurrencies # 0
    THEN LET k  == <<src_id, rup>>
             d1 == DDGet(d, k)
         IN  [d1 EXCEPT ![k] = Append(@, <<ses_ordinal, num_occurrencies>>)]
    ELSE d

\* for ses, num_occurrencies in self._dd[src_id, rup]:
\*     for _ in range(num_occurrencies): yield rup
RECURSIVE expand(_, _)
expand(pairs, rup) ==
    IF pairs = <<>> THEN <<>>
    ELSE [i \in 1..pairs[1][2] |-> rup] \o expand(Tail(pairs), rup)

\* the ruptures yielded while the keys are walked
RECURSIVE iterate_yield(_, _)
iterate_yield(d, keys) ==
    IF keys = <<>> THEN <<>>
    ELSE LET d1 == DDGet(d, keys[1])
         IN  expand(d1[keys[1]], keys[1][2]) \o iterate_yield(d1, Tail(keys))

\* the dictionary left once self._dd[src_id, rup] was read for every key
RECURSIVE iterate_dd(_, _)
iterate_dd(d, keys) ==
    IF keys = <<>> THEN d
    ELSE LET d1 == DDGet(d, keys[1])
         IN  IF Evaluated(d1) THEN iterate_dd(d1, Tail(keys)) ELSE d1

iterate(d, keys) == [yield |-> iterate_yield(d, keys), dd |-> iterate_dd(d, keys)]

get_ruptures_unsorted(d) ==
    LET S == DOMAIN d
        RECURSIVE desc(_)
        desc(T) == IF T = {} THEN <<>>
                   ELSE LET m == CHOOSE x \in T : \A y \in T \ {x} : KeyLess(y, x)
                        IN  <<m>> \o desc(T \ {m})
    IN  iterate(d, desc(S))

get_ruptures_consuming(d) ==
    [yield |-> iterate(d, sorted(DOMAIN d)).yield, dd |-> EmptyDD]

\* RuptureCollector.get_ruptures: what one full iteration yields, and the
\* _dd it leaves behind
get_ruptures(d) == iterate(d, sorted(DOMAIN d))

len_occurrences(d) ==
    SumSeq([i \in 1..Cardinality(DOMAIN d) |->
              LET k == sorted(DOMAIN d)[i] IN Len(expand(d[k], k[2]))])

\* RuptureCollector.__len__
collector_len(d) == Cardinality(DOMAIN d)

\* RuptureCollector.clear
clear(d) == EmptyDD

(***************************************************************************)
(* Inputs of the hazard job (Spec).                                        *)
(***************************************************************************)
\* stochastic event sets per realization (hc.ses_per_logic_tree_path)
NumSes == 2
\* ruptures that iter_ruptures() yields for every source
RupsPerSource == 2
\* largest number of occurrences one sampling returns
MaxOcc == 2
\* largest number of blocks the second run cuts the source list into
MaxBlocks == 2

\* source ids
Sources == {1, 2, 3}
\* the ordered source lists a job is run on: one in ascending source_id
\* order and one that is not
SourceLists == {<<1, 2, 3>>, <<3, 1, 2>>}
\* ordinals of the logic-tree realizations, in _get_realizations() order
Realizations == <<1, 2>>
\* values of hc.random_seed
MasterSeeds == {42, 7}
\* site ids of hc.site_collection; site x lies at position x, and source s
\* (with all its ruptures) at position s
Sites == <<1, 2>>
\* hc.intensity_measure_types
Imts == <<"PGA", "PGV">>
\* hc.maximum_distance
maximum_distance == 1

MAX_SINT_32 == 2147483647

(***************************************************************************)
(* random.Random and numpy.random.  Both are deterministic generators:     *)
(* seed() fixes the state, every draw advances it.  They are modelled as   *)
(* Lehmer generators modulo 2^31 - 1 (multipliers 16807 and 48271), the    *)
(* products being evaluated by Schrage's method to stay within 32 bits.    *)
(***************************************************************************)
\* rnd.seed(a): the state after seeding
rnd_seed(a) == (a % (MAX_SINT_32 - 1)) + 1

\* rnd.randint(0, MAX_SINT_32): the next state, which is the value returned
randint(state) ==
    LET t == 16807 * (state % 127773) - 2836 * (state \div 127773)
    IN  IF t > 0 THEN t ELSE t + MAX_SINT_32

\* numpy.random.seed(a)
np_seed(a) == ((a + 12345) % (MAX_SINT_32 - 1)) + 1

\* the next state of numpy's global generator
np_next(state) ==
    LET t == 48271 * (state % 44488) - 3399 * (state \div 44488)
    IN  IF t > 0 THEN t ELSE t + MAX_SINT_32

\* src.iter_ruptures(): the same finite list at every call
iter_ruptures(src) == [i \in 1..RupsPerSource |-> <<src, i>>]

\* r.sample_number_of_occurrences(): a Poisson sample read off numpy's
\* global generator in state np (mostly 0, seldom more than 1)
sample_number_of_occurrences(np) ==
    LET u == (np \div 1024) % 8
    IN  IF u < 4 THEN 0 ELSE IF u < 7 THEN 1 ELSE MaxOcc

\* models.SES.objects.filter(ses_collection=ses_coll): the SES ordinals of
\* a collection as created by initialize_ses_db_records, 1..N in order
all_ses == [i \in 1..NumSes |-> i]

(***************************************************************************)
(* compute_ses.                                                            *)
(***************************************************************************)
\* for i, r in enumerate(rupts): collector.add(ses.ordinal, src.source_id,
\*     r, r.sample_number_of_occurrences())
RECURSIVE sample_ruptures(_, _, _, _, _)
sample_ruptures(d, ses_ordinal, src, rupts, np) ==
    IF rupts = <<>> THEN d
    ELSE LET np1 == np_next(np)
             d1  == add(d, ses_ordinal, src, rupts[1],
                        sample_number_of_occurrences(np1))
         IN  IF Evaluated(d1) THEN sample_ruptures(d1, ses_ordinal, src, Tail(rupts), np1)
             ELSE d1

\* for ses in all_ses: numpy.random.seed(rnd.randint(0, MAX_SINT_32)); ...
RECURSIVE sample_ses(_, _, _, _, _)
sample_ses(d, src, rupts, sess, rnd) ==
    IF sess = <<>> THEN [dd |-> d, rnd |-> rnd]
    ELSE LET rnd1 == randint(rnd)
             d1   == sample_ruptures(d, sess[1], src, rupts, np_seed(rnd1))
         IN  IF Evaluated(d1) THEN sample_ses(d1, src, rupts, Tail(sess), rnd1)
             ELSE [dd |-> d1, rnd |-> rnd1]

RECURSIVE sample_sources_no_reseed(_, _, _)
sample_sources_no_reseed(d, src_seeds, rnd) ==
    IF src_seeds = <<>> THEN d
    ELSE LET src == src_seeds[1][1]
             r   == sample_ses(d, src, iter_ruptures(src), all_ses, rnd)
         IN  IF Evaluated(r) THEN sample_sources_no_reseed(r.dd, Tail(src_seeds), r.rnd)
             ELSE r.dd

\* for src, seed in src_seeds: rnd.seed(seed); rupts = list(...); ...
RECURSIVE sample_sources(_, _, _)
sample_sources(d, src_seeds, rnd) ==
    IF src_seeds = <<>> THEN d
    ELSE LET src  == src_seeds[1][1]
             rnd0 == rnd_seed(src_seeds[1][2])
             r    == sample_ses(d, src, iter_ruptures(src), all_ses, rnd0)
         IN  IF Evaluated(r) THEN sample_sources(r.dd, Tail(src_seeds), r.rnd)
             ELSE r.dd

compute_ses_shared_rnd(src_seeds, ses_coll, task_no) ==
    [ses_collection |-> ses_coll, ordinal |-> task_no,
     dd |-> IF src_seeds = <<>> THEN EmptyDD
            ELSE sample_sources_no_reseed(EmptyDD, src_seeds, rnd_seed(src_seeds[1][2]))]

\* compute_ses: the collector the task returns
compute_ses(src_seeds, ses_coll, task_no) ==
    [ses_collection |-> ses_coll, ordinal |-> task_no,
     dd |-> sample_sources(EmptyDD, src_seeds, 0)]

\* the tag 'rlz=%02d|ses=%04d|src=%s|i=%03d'
Tag(rlz, ses_ordinal, src_id, i) == <<rlz, ses_ordinal, src_id, i>>

\* list(models.SES.objects.filter(ses_collection=ses_coll)): the query has
\* no order_by, the lists the store can return are the SES records of the
\* collection in any order
filter_ses_collection ==
    {o \in [DOMAIN all_ses -> Range(all_ses)] :
        \A i, j \in DOMAIN all_ses : o[i] = o[j] => i = j}

RECURSIVE create_ruptures_once(_, _, _, _, _)
create_ruptures_once(ses_list, rlz, src_id, rup, pairs) ==
    IF pairs = <<>> THEN <<>>
    ELSE <<[ses |-> ses_list[pairs[1][1]], rupture |-> rup,
            tag |-> Tag(rlz, pairs[1][1], src_id, 0)]>>
         \o create_ruptures_once(ses_list, rlz, src_id, rup, Tail(pairs))

\* for i in range(num_occurrencies): models.SESRupture.objects.create(...),
\* ses_list being what the store returned for all_ses
RECURSIVE create_ruptures(_, _, _, _, _)
create_ruptures(ses_list, rlz, src_id, rup, pairs) ==
    IF pairs = <<>> THEN <<>>
    ELSE [i \in 1..pairs[1][2] |->
             [ses |-> ses_list[pairs[1][1]], rupture |-> rup,
              tag |-> Tag(rlz, pairs[1][1], src_id, i - 1)]]
         \o create_ruptures(ses_list, rlz, src_id, rup, Tail(pairs))

RECURSIVE save_keys(_, _, _)
save_keys(ses_list, collector, keys) ==
    IF keys = <<>> THEN <<>>
    ELSE create_ruptures(ses_list, collector.ses_collection, keys[1][1], keys[1][2],
                         collector.dd[keys[1]])
         \o save_keys(ses_list, collector, Tail(keys))

\* RuptureCollector.save_ses_ruptures: the SESRupture records created, in
\* creation order, within one transaction, when the store returned ses_list
save_ses_ruptures_from(ses_list, collector) ==
    save_keys(ses_list, collector, sorted(DOMAIN collector.dd))

\* save_ses_ruptures when the store returns the SES records in the order
\* they were created in
save_ses_ruptures(collector) == save_ses_ruptures_from(all_ses, collector)

(***************************************************************************)
(* EventBasedHazardCalculator.task_arg_gen, task_completed, post_execute,  *)
(* compute_gmf_arg_gen.                                                    *)
(***************************************************************************)
\* ss = [(src, rnd.randint(0, models.MAX_SINT_32)) for src in block]
RECURSIVE draw_seeds(_, _)
draw_seeds(rnd, block) ==
    IF block = <<>> THEN [ss |-> <<>>, rnd |-> rnd]
    ELSE LET r1   == randint(rnd)
             rest == draw_seeds(r1, Tail(block))
         IN  [ss |-> <<(<<block[1], r1>>)>> \o rest.ss, rnd |-> rest.rnd]

\* the generator of task_arg_gen is not seeded anew in a second run
block_seeds_carried_over(rnd, block) ==
    draw_seeds(IF phase[1] = "complete" THEN randint(rnd) ELSE rnd, block)

block_seeds_extra_draw(rnd, block) == draw_seeds(randint(rnd), block)

\* task_arg_gen, one block: the (source, seed) pairs of the task and the
\* generator state left for the next block
block_seeds(rnd, block) == draw_seeds(rnd, block)

\* self.collectors[collector.ses_collection].append(collector)
task_completed(colls, collector) ==
    LET c1 == DDGet(colls, collector.ses_collection)
    IN  [c1 EXCEPT ![collector.ses_collection] = Append(@, collector)]

\* list.sort() with RuptureCollector.__cmp__: ascending ordinal, stable
RECURSIVE insert_by_ordinal(_, _)
insert_by_ordinal(cs, c) ==
    IF cs = <<>> THEN <<c>>
    ELSE IF cs[Len(cs)].ordinal <= c.ordinal THEN Append(cs, c)
    ELSE Append(insert_by_ordinal(SubSeq(cs, 1, Len(cs) - 1), c), cs[Len(cs)])

RECURSIVE sort_list(_)
sort_list(cs) ==
    IF cs = <<>> THEN <<>>
    ELSE insert_by_ordinal(sort_list(SubSeq(cs, 1, Len(cs) - 1)), cs[Len(cs)])

sort_collectors_skipped(colls) == colls

\* the collectors in descending ordinal order
sort_collectors_descending(colls) ==
    [k \in DOMAIN colls |->
        [n \in DOMAIN colls[k] |-> sort_list(colls[k])[Len(colls[k]) + 1 - n]]]

\* for collectors in self.collectors.itervalues(): collectors.sort()
sort_collectors(colls) == [k \in DOMAIN colls |-> sort_list(colls[k])]

RECURSIVE gmf_args_of_list_seed_always(_, _, _)
gmf_args_of_list_seed_always(cs, gmf_coll, rnd) ==
    IF cs = <<>> THEN [args |-> <<>>, rnd |-> rnd]
    ELSE LET r1   == randint(rnd)
             rest == gmf_args_of_list_seed_always(Tail(cs), gmf_coll, r1)
         IN  [args |-> (IF collector_len(cs[1].dd) = 0 THEN <<>>
                        ELSE <<[gmf_coll |-> gmf_coll, collector |-> cs[1],
                                seed |-> r1]>>) \o rest.args,
              rnd |-> rest.rnd]

\* for collector in self.collectors[ses_coll]: skip the empty ones, draw one
\* seed for each of the others
RECURSIVE gmf_args_of_list(_, _, _)
gmf_args_of_list(cs, gmf_coll, rnd) ==
    IF cs = <<>> THEN [args |-> <<>>, rnd |-> rnd]
    ELSE IF collector_len(cs[1].dd) = 0
         THEN gmf_args_of_list(Tail(cs), gmf_coll, rnd)
         ELSE LET r1   == randint(rnd)
                  rest == gmf_args_of_list(Tail(cs), gmf_coll, r1)
              IN  [args |-> <<[gmf_coll |-> gmf_coll, collector |-> cs[1],
                               seed |-> r1]>> \o rest.args,
                   rnd |-> rest.rnd]

RECURSIVE gmf_args_of_rlzs(_, _, _)
gmf_args_of_rlzs(colls, rlzs, rnd) ==
    IF rlzs = <<>> THEN <<>>
    ELSE LET c1 == DDGet(colls, rlzs[1])
             r  == gmf_args_of_list(c1[rlzs[1]], rlzs[1], rnd)
         IN  r.args \o gmf_args_of_rlzs(c1, Tail(rlzs), r.rnd)

\* compute_gmf_arg_gen: the argument tuples it yields, in order
compute_gmf_arg_gen(colls, master_seed) ==
    gmf_args_of_rlzs(colls, Realizations, rnd_seed(master_seed))

(***************************************************************************)
(* compute_gmf, _compute_gmf, _save_gmfs.                                  *)
(***************************************************************************)
Dist(rup, site) == IF rup[1] >= site THEN rup[1] - site ELSE site - rup[1]

RECURSIVE np_iter(_, _)
np_iter(np, k) == IF k = 0 THEN np ELSE np_iter(np_next(np), k - 1)

\* gmf.ground_motion_fields(...) after numpy.random.seed(seed): the value
\* of intensity measure m (an index of Imts) at site x (an index of Sites);
\* 0 at the sites the rupture_site_distance_filter removes
ground_motion_fields(rupture, seed, m, x) ==
    IF Dist(rupture, Sites[x]) > maximum_distance THEN 0
    ELSE 1 + ((np_iter(np_seed(seed), (m - 1) * Len(Sites) + x) \div 1024) % 4)

\* for rupture in collector.get_ruptures(): ... rnd.randint(0, MAX_SINT_32):
\* the ruptures in iteration order, each with the seed drawn for it
RECURSIVE draw_rupture_seeds(_, _)
draw_rupture_seeds(rupts, rnd) ==
    IF rupts = <<>> THEN <<>>
    ELSE LET r1 == randint(rnd)
         IN  <<(<<rupts[1], r1>>)>> \o draw_rupture_seeds(Tail(rupts), r1)

rupture_seeds(collector, seed) ==
    draw_rupture_seeds(get_ruptures(collector.dd).yield, rnd_seed(seed))

store_gmv_unfiltered(g, imt, site_id, gmv) ==
    LET g1 == DDGet(g, <<imt, site_id>>)
    IN  [g1 EXCEPT ![<<imt, site_id>>] = Append(@, gmv)]

\* if gmv: gmvs_per_site[imt, site.id].append(gmv)
store_gmv(g, imt, site_id, gmv) ==
    IF gmv # 0
    THEN LET g1 == DDGet(g, <<imt, site_id>>)
         IN  [g1 EXCEPT ![<<imt, site_id>>] = Append(@, gmv)]
    ELSE g

\* the (imt, site) index pairs in the order of the two inner loops
ImtSitePairs ==
    [k \in 1..(Len(Imts) * Len(Sites)) |->
        <<((k - 1) \div Len(Sites)) + 1, ((k - 1) % Len(Sites)) + 1>>]

RECURSIVE store_field(_, _, _, _)
store_field(g, rupture, seed, pairs) ==
    IF pairs = <<>> THEN g
    ELSE LET m  == pairs[1][1]
             x  == pairs[1][2]
             g1 == store_gmv(g, Imts[m], Sites[x],
                             ground_motion_fields(rupture, seed, m, x))
         IN  IF Evaluated(g1) THEN store_field(g1, rupture, seed, Tail(pairs))
             ELSE g1

RECURSIVE store_fields(_, _)
store_fields(g, rs) ==
    IF rs = <<>> THEN g
    ELSE LET g1 == store_field(g, rs[1][1], rs[1][2], ImtSitePairs)
         IN  IF Evaluated(g1) THEN store_fields(g1, Tail(rs)) ELSE g1

\* _compute_gmf: the gmvs_per_site dictionary it returns
_compute_gmf(collector, seed) == store_fields(EmptyDD, rupture_seeds(collector, seed))

\* _save_gmfs: the GmfData rows inserted, one per key of gmvs_per_site
_save_gmfs(gmf, gmvs_per_site, task_no) ==
    {[gmf |-> gmf, task_no |-> task_no, imt |-> k[1], site_id |-> k[2],
      gmvs |-> gmvs_per_site[k]] : k \in DOMAIN gmvs_per_site}

(***************************************************************************)
(* The risk calculator: RiskCalculator.pre_execute and assoc_site_assets.  *)
(* Locations are points of a line; exp.site and hsite.location are their   *)
(* coordinates and ST_Distance is the distance on the line.                *)
(***************************************************************************)
AssetIds == {1, 2, 3}
Taxonomies == {"RC", "W"}
\* the hazard_site rows of the hazard calculation: id -> location
HazardSites == (10 :> 0) @@ (20 :> 4)
\* where an asset can be: 1 is nearer to site 10 and within the distance of
\* both sites, 2 is as far from the one as from the other, 3 is outside the
\* region constraint, 8 is too far from every site
AssetLocations == {1, 2, 3, 8}
\* rc.region_constraint
Region == {1, 2, 8}
\* rc.best_maximum_distance
best_maximum_distance == 3
\* the values get_risk_models() can return, as sets of taxonomies
RiskModelSets == {{"RC"}, {"RC", "W"}}

validators ==
    <<"HazardIMT", "EmptyExposure", "OrphanTaxonomies", "ExposureLossTypes",
      "NoRiskModels">>

ST_Distance(p, q) == IF p >= q THEN p - q ELSE q - p

ST_DWithin(p, q, d) == ST_Distance(p, q) <= d

ST_COVERS(region, p) == p \in region

\* sorted ascending, for a set of ids
RECURSIVE sorted_ids(_)
sorted_ids(S) ==
    IF S = {} THEN <<>>
    ELSE LET m == CHOOSE x \in S : \A y \in S : x <= y
         IN  <<m>> \o sorted_ids(S \ {m})

\* exposure_model.taxonomies_in(region_constraint): taxonomy -> number of
\* assets of the region
taxonomies_in(exp, region) ==
    LET inside == {a \in DOMAIN exp : ST_COVERS(region, exp[a].site)}
    IN  [t \in {exp[a].taxonomy : a \in inside} |->
            Cardinality({a \in inside : exp[a].taxonomy = t})]

\* if self.rc.taxonomies_from_model: keep the taxonomies of the risk models
taxonomies_considered(tac, from_model, models) ==
    IF from_model
    THEN [t \in {u \in DOMAIN tac : u \in models} |-> tac[t]]
    ELSE tac

\* models.ExposureData.objects.get_asset_chunk(self.rc): the assets of the
\* exposure model in the region constraint; the keys of asset_dict
get_asset_chunk(exp) == {a \in DOMAIN exp : ST_COVERS(Region, exp[a].site)}

\* the rows of the join of exposure_data and hazard_site for one taxonomy
join_rows(exp, taxonomy) ==
    {r \in (DOMAIN exp) \X (DOMAIN HazardSites) :
        /\ ST_DWithin(exp[r[1]].site, HazardSites[r[2]], best_maximum_distance)
        /\ exp[r[1]].taxonomy = taxonomy
        /\ ST_COVERS(Region, exp[r[1]].site)}

distinct_on_dropped(exp, rows) == {rows}

\* SELECT DISTINCT ON (exp.id) ... ORDER BY exp.id, ST_Distance(...): one
\* row per asset, a row of the smallest distance; which one of several rows
\* at the smallest distance is not determined.  The set of possible results.
distinct_on(exp, rows) ==
    LET ids == {r[1] : r \in rows}
        first(a) == {r \in rows :
                        /\ r[1] = a
                        /\ \A q \in rows : q[1] = a =>
                              ST_Distance(exp[a].site, HazardSites[r[2]])
                                 <= ST_Distance(exp[a].site, HazardSites[q[2]])}
    IN  {{f[a] : a \in ids} :
            f \in {g \in [ids -> rows] : \A a \in ids : g[a] \in first(a)}}

\* SELECT site_id, array_agg(asset_id ORDER BY asset_id) ... GROUP BY site_id
\* ORDER BY site_id
group_by_site(rows) ==
    LET site_ids == sorted_ids({r[2] : r \in rows})
    IN  [n \in DOMAIN site_ids |->
            <<site_ids[n], sorted_ids({r[1] : r \in {q \in rows : q[2] = site_ids[n]}})>>]

\* assoc_site_assets(job_id, taxonomy): the results cursor.fetchall() can
\* return
assoc_site_assets(exp, taxonomy) ==
    {group_by_site(rows) : rows \in distinct_on(exp, join_rows(exp, taxonomy))}

RECURSIVE update_dict_merged(_, _)
update_dict_merged(acc, pairs) ==
    IF pairs = <<>> THEN acc
    ELSE LET a1 == DDGet(acc, pairs[1][1])
         IN  update_dict_merged(
                 [a1 EXCEPT ![pairs[1][1]] = sorted_ids(Range(@) \cup Range(pairs[1][2]))],
                 Tail(pairs))

\* def update_dict(acc, site_asset_ids)
RECURSIVE update_dict(_, _)
update_dict(acc, pairs) ==
    IF pairs = <<>> THEN acc
    ELSE LET a1 == DDGet(acc, pairs[1][1])
         IN  update_dict([a1 EXCEPT ![pairs[1][1]] = @ \o pairs[1][2]], Tail(pairs))

\* the first validator of the list that reports an error
first_error_last(errs) ==
    validators[CHOOSE n \in DOMAIN validators :
                  /\ validators[n] \in errs
                  /\ \A m \in DOMAIN validators : validators[m] \in errs => n >= m]

first_error(errs) ==
    validators[CHOOSE n \in DOMAIN validators :
                  /\ validators[n] \in errs
                  /\ \A m \in DOMAIN validators : validators[m] \in errs => n <= m]

RiskIdle ==
    /\ exposure = <<>>
    /\ taxonomies_from_model = FALSE
    /\ risk_models = {}
    /\ validator_errors = {}
    /\ taxonomies_asset_count = <<>>
    /\ assoc = <<>>
    /\ site_asset_ids = EmptyDD
    /\ site_assets = <<>>
    /\ missing_assets = {}
    /\ raised = "none"
    /\ task_args = <<>>
    /\ rphase = "idle"

\* a risk calculator after construction, its exposure stored
RiskInit ==
    /\ exposure \in [AssetIds -> [taxonomy : Taxonomies, site : AssetLocations]]
    /\ taxonomies_from_model \in BOOLEAN
    /\ risk_models \in RiskModelSets
    /\ validator_errors \in SUBSET Range(validators)
    /\ taxonomies_asset_count = <<>>
    /\ assoc = <<>>
    /\ site_asset_ids = EmptyDD
    /\ site_assets = <<>>
    /\ missing_assets = {}
    /\ raised = "none"
    /\ task_args = <<>>
    /\ rphase = "init"

\* pre_execute up to map_reduce: the taxonomies are counted, the validators
\* run (validator_errors are those that report an error) and, if none raises, one
\* assoc_site_assets task per taxonomy is dispatched
PreExecuteStart ==
    /\ rphase = "init"
    /\ taxonomies_asset_count' =
          taxonomies_considered(taxonomies_in(exposure, Region),
                                taxonomies_from_model, risk_models)
    /\ IF validator_errors # {}
          THEN /\ raised' = first_error(validator_errors)
               /\ rphase' = "failed"
               /\ UNCHANGED assoc
          ELSE /\ assoc' = [t \in DOMAIN taxonomies_asset_count' |->
                              [status |-> "queued", result |-> <<>>]]
               /\ rphase' = "assoc"
               /\ UNCHANGED raised
    /\ UNCHANGED <<exposure, taxonomies_from_model, risk_models, validator_errors,
                   site_asset_ids, site_assets, missing_assets, task_args, notRiskVars>>

\* a worker runs assoc_site_assets for one taxonomy
AssocSiteAssets(t) ==
    /\ rphase = "assoc"
    /\ t \in DOMAIN assoc
    /\ assoc[t].status = "queued"
    /\ \E res \in assoc_site_assets(exposure, t) :
          assoc' = [assoc EXCEPT ![t] = [status |-> "returned", result |-> res]]
    /\ UNCHANGED <<exposure, taxonomies_from_model, risk_models, validator_errors,
                   taxonomies_asset_count, site_asset_ids, site_assets,
                   missing_assets, raised, rphase, task_args, notRiskVars>>

\* map_reduce receives one result and folds it in with update_dict
UpdateDict(t) ==
    /\ rphase = "assoc"
    /\ t \in DOMAIN assoc
    /\ assoc[t].status = "returned"
    /\ assoc' = [assoc EXCEPT ![t].status = "reduced"]
    /\ site_asset_ids' = update_dict(site_asset_ids, assoc[t].result)
    /\ UNCHANGED <<exposure, taxonomies_from_model, risk_models, validator_errors,
                   taxonomies_asset_count, site_assets, missing_assets, raised,
                   rphase, task_args, notRiskVars>>

\* pre_execute after map_reduce: site_assets and the missing assets
PreExecuteFinish ==
    /\ rphase = "assoc"
    /\ \A t \in DOMAIN assoc : assoc[t].status = "reduced"
    /\ LET asset_dict == get_asset_chunk(exposure)
           ok_assets  == UNION {Range(site_asset_ids[s]) : s \in DOMAIN site_asset_ids}
       IN  IF ok_assets \subseteq asset_dict
           THEN /\ site_assets' = [s \in DOMAIN site_asset_ids |-> site_asset_ids[s]]
                /\ missing_assets' = asset_dict \ ok_assets
                /\ rphase' = "done"
                /\ UNCHANGED raised
           ELSE /\ raised' = "KeyError"
                /\ rphase' = "failed"
                /\ UNCHANGED <<site_assets, missing_assets>>
    /\ UNCHANGED <<exposure, taxonomies_from_model, risk_models, validator_errors,
                   taxonomies_asset_count, assoc, site_asset_ids, task_args, notRiskVars>>

\* int(config.get('hazard', 'concurrent_tasks'))
nblocks == 2

\* models.loss_types(self.risk_models)
loss_types == {"structural"}

\* general.SequenceSplitter(nblocks).split_on_max_weight(items): the ways to
\* put the sites in at most nblocks blocks, none of them empty (the splitter
\* is not part of the sources at hand; following the specification it is a
\* balancing heuristic whose result is a partition of the items)
split_on_max_weight(site_ids, n) ==
    {[b \in 1..Cardinality({f[x] : x \in site_ids}) |->
         sorted_ids({x \in site_ids : f[x] = b})] :
        f \in {g \in [site_ids -> 1..n] :
                  \A b \in 1..n : (\E x \in site_ids : g[x] = b) =>
                      \A c \in 1..b : \E y \in site_ids : g[y] = c}}

\* the length of the run of assets of the taxonomy of the first one
RECURSIVE run_length(_, _)
run_length(assets, exp) ==
    IF Len(assets) >= 2 /\ exp[assets[2]].taxonomy = exp[assets[1]].taxonomy
    THEN 1 + run_length(Tail(assets), exp)
    ELSE 1

RECURSIVE groupby_first_only(_, _)
groupby_first_only(assets, exp) ==
    IF assets = <<>> THEN <<>>
    ELSE LET n == run_length(assets, exp)
         IN  <<<<exp[assets[1]].taxonomy, <<assets[1]>>>>>>
                \o groupby_first_only(SubSeq(assets, n + 1, Len(assets)), exp)

\* itertools.groupby(assets, key=operator.attrgetter('taxonomy')): the runs
\* of consecutive assets of one taxonomy, as (taxonomy, assets) pairs
RECURSIVE groupby(_, _)
groupby(assets, exp) ==
    IF assets = <<>> THEN <<>>
    ELSE LET n == run_length(assets, exp)
         IN  <<<<exp[assets[1]].taxonomy, SubSeq(assets, 1, n)>>>>
                \o groupby(SubSeq(assets, n + 1, Len(assets)), exp)

\* the inner loop of task_arg_gen for one site: a taxonomy that is not in
\* the risk models is skipped if taxonomies_from_model is set, the others
\* are stored under taxonomy_site_assets[taxonomy][site_id]
RECURSIVE add_groups(_, _, _, _, _)
add_groups(tsa, site_id, groups, from_model, models) ==
    IF groups = <<>> THEN tsa
    ELSE LET taxonomy == groups[1][1]
             assets   == groups[1][2]
             t1 == IF taxonomy \in DOMAIN tsa THEN tsa ELSE tsa @@ (taxonomy :> <<>>)
             t2 == [t1 EXCEPT ![taxonomy] = (site_id :> assets) @@ @]
         IN  IF from_model /\ taxonomy \notin models
             THEN add_groups(tsa, site_id, Tail(groups), from_model, models)
             ELSE add_groups(t2, site_id, Tail(groups), from_model, models)

\* for site_id in site_ids: ...: the taxonomy_site_assets of one block
RECURSIVE taxonomy_site_assets(_, _, _, _, _, _)
taxonomy_site_assets(tsa, site_ids, sa, exp, from_model, models) ==
    IF site_ids = <<>> THEN tsa
    ELSE taxonomy_site_assets(
             add_groups(tsa, site_ids[1], groupby(sa[site_ids[1]], exp),
                        from_model, models),
             Tail(site_ids), sa, exp, from_model, models)

\* self.calculation_units(loss_type, taxonomy_site_assets): one unit per
\* taxonomy with the assets of the block (the method is not part of the
\* sources at hand; following the specification a unit is bound to one
\* taxonomy and one block)
calculation_units(loss_type, tsa) ==
    {[loss_type |-> loss_type, taxonomy |-> t, site_assets |-> tsa[t]] :
        t \in DOMAIN tsa}

\* task_arg_gen: what it yields for the blocks, in order
task_arg_gen(blocks, sa, exp, from_model, models) ==
    [b \in DOMAIN blocks |->
        [site_ids |-> blocks[b],
         calculation_units |->
            UNION {calculation_units(lt,
                       taxonomy_site_assets(<<>>, blocks[b], sa, exp,
                                            from_model, models)) :
                   lt \in loss_types}]]

\* task_arg_gen is consumed: the blocks are made and one argument list per
\* block is yielded
RiskTaskArgGen ==
    /\ rphase = "done"
    /\ \E blocks \in split_on_max_weight(DOMAIN site_assets, nblocks) :
          task_args' = task_arg_gen(blocks, site_assets, exposure,
                                    taxonomies_from_model, risk_models)
    /\ rphase' = "dispatched"
    /\ UNCHANGED <<exposure, taxonomies_from_model, risk_models, validator_errors,
                   taxonomies_asset_count, assoc, site_asset_ids, site_assets,
                   missing_assets, raised, notRiskVars>>

(***************************************************************************)
(* The hazard getters of the risk calculators.  A getter holds the assets  *)
(* of one taxonomy; assets_gen associates them to the hazard sites with a  *)
(* query on the whole exposure, get_data collects the hazard of each site. *)
(***************************************************************************)
GetterClasses ==
    {"HazardCurveGetterPerAsset", "ScenarioGetter", "GroundMotionValuesGetter"}

\* the hazard_curve_data rows of the hazard output: site id -> poes
HazardCurves == (10 :> <<11>>) @@ (20 :> <<21>>)

\* the GmfData rows a site can have for the IMT of the getter: none, one row
\* without values, one row with a value, two rows with a value each
GmfRows(s) ==
    {<<>>,
     <<[gmvs |-> <<>>, rupture_ids |-> <<>>]>>,
     <<[gmvs |-> <<s + 1>>, rupture_ids |-> <<1>>]>>,
     <<[gmvs |-> <<s + 1>>, rupture_ids |-> <<1>>],
       [gmvs |-> <<s + 2>>, rupture_ids |-> <<2>>]>>}

NoGmvsWarning(site_id) == [msg |-> "No gmvs for site", id |-> site_id]

\* self.asset_dict = dict((asset.id, asset) for asset in self.assets)
asset_dict_keys(assets) == Range(assets)

\* self._assets_mesh.get_convex_hull() on the line: the locations between
\* the leftmost and the rightmost asset of the getter
convex_hull(exp, assets) ==
    LET xs == {exp[a].site : a \in Range(assets)}
    IN  {x \in AssetLocations :
            (\E lo \in xs : lo <= x) /\ (\E hi \in xs : x <= hi)}

\* the rows of the join of the query of assets_gen: every asset of the
\* exposure model with the taxonomy of self.assets[0] inside the hull
assets_gen_rows(exp, assets) ==
    {r \in (DOMAIN exp) \X (DOMAIN HazardSites) :
        /\ ST_DWithin(exp[r[1]].site, HazardSites[r[2]], best_maximum_distance)
        /\ exp[r[1]].taxonomy = exp[assets[1]].taxonomy
        /\ exp[r[1]].site \in convex_hull(exp, assets)}

\* cursor.fetchall() of assets_gen: the results the query can return
assets_gen_fetchall(exp, assets) ==
    {group_by_site(rows) : rows \in distinct_on(exp, assets_gen_rows(exp, assets))}

\* [self.asset_dict[i] for i in asset_ids if i in self.asset_dict]
own_assets_unfiltered(asset_ids, assets) == asset_ids

own_assets(asset_ids, assets) ==
    SelectSeq(asset_ids, LAMBDA i : i \in asset_dict_keys(assets))

\* the loop of assets_gen: what it yields for the fetched rows
RECURSIVE assets_gen_yield(_, _)
assets_gen_yield(fetched, assets) ==
    IF fetched = <<>> THEN <<>>
    ELSE LET own == own_assets(fetched[1][2], assets)
         IN  (IF own # <<>> THEN <<<<fetched[1][1], own>>>> ELSE <<>>)
                \o assets_gen_yield(Tail(fetched), assets)

\* ScenarioGetter.get_gmvs: the values of the rows of the site and the
\* warnings logged on the way
RECURSIVE get_gmvs_loop(_, _, _, _)
get_gmvs_loop(rows, site_id, gmvs, warnings) ==
    IF rows = <<>> THEN [gmvs |-> gmvs, ruptures |-> <<>>, warnings |-> warnings]
    ELSE LET extended == gmvs \o rows[1].gmvs
         IN  get_gmvs_loop(Tail(rows), site_id, extended,
                           IF extended = <<>>
                           THEN Append(warnings, NoGmvsWarning(site_id))
                           ELSE warnings)

get_gmvs(rows, site_id) == get_gmvs_loop(rows, site_id, <<>>, <<>>)

\* GroundMotionValuesGetter.get_gmvs_ruptures
get_gmvs_ruptures(rows, site_id) ==
    LET gmvs     == Concat([n \in DOMAIN rows |-> rows[n].gmvs])
        ruptures == Concat([n \in DOMAIN rows |-> rows[n].rupture_ids])
    IN  [gmvs |-> gmvs, ruptures |-> ruptures,
         warnings |-> IF gmvs = <<>> THEN <<NoGmvsWarning(site_id)>> ELSE <<>>]

\* [array] * n_assets
Repeat(array, n) == [i \in 1..n |-> array]

zip_get_repeated(ruptures, gmvs, r) ==
    IF gmvs = <<>> THEN 0
    ELSE IF \E n \in DOMAIN ruptures \cap DOMAIN gmvs : ruptures[n] = r
         THEN gmvs[CHOOSE n \in DOMAIN ruptures \cap DOMAIN gmvs : ruptures[n] = r]
         ELSE gmvs[Len(gmvs)]

\* dict(zip(ruptures, gmvs)).get(r, 0.): a later pair replaces an earlier one
zip_get(ruptures, gmvs, r) ==
    LET len == IF Len(ruptures) <= Len(gmvs) THEN Len(ruptures) ELSE Len(gmvs)
        at  == {n \in 1..len : ruptures[n] = r}
    IN  IF at = {} THEN 0
        ELSE gmvs[CHOOSE n \in at : \A m \in at : m <= n]

\* the second pass of GroundMotionValuesGetter.get_data, filling with zeros
fill_with_zeros(sgmv) ==
    LET all_ruptures == sorted_ids(UNION {Range(sgmv[n].ruptures) : n \in DOMAIN sgmv})
        array(n) == [k \in DOMAIN all_ruptures |->
                        zip_get(sgmv[n].ruptures, sgmv[n].gmvs, all_ruptures[k])]
    IN  <<Concat([n \in DOMAIN sgmv |-> Repeat(array(n), sgmv[n].n_assets)]),
          all_ruptures>>

GetterIdle ==
    /\ getter_class = "none"
    /\ getter_assets = <<>>
    /\ exposure_data = <<>>
    /\ gmf_store = <<>>
    /\ sites_assets = <<>>
    /\ site_assets_list = <<>>
    /\ pos = 0
    /\ all_assets = <<>>
    /\ all_gmvs = <<>>
    /\ site_gmv = <<>>
    /\ getter_log = <<>>
    /\ getter_result = <<>>
    /\ gphase = "idle"

\* a getter after construction, for assets of one taxonomy of the exposure
GetterInit ==
    /\ getter_class \in GetterClasses
    /\ exposure_data \in [AssetIds -> [taxonomy : Taxonomies, site : AssetLocations]]
    /\ getter_assets \in
          {sorted_ids(S) : S \in {T \in SUBSET AssetIds :
              /\ T # {}
              /\ \A a, b \in T : exposure_data[a].taxonomy = exposure_data[b].taxonomy}}
    /\ gmf_store \in
          IF getter_class = "HazardCurveGetterPerAsset"
          THEN {[s \in DOMAIN HazardSites |-> <<>>]}
          ELSE {f \in [DOMAIN HazardSites -> UNION {GmfRows(s) : s \in DOMAIN HazardSites}] :
                   \A s \in DOMAIN HazardSites : f[s] \in GmfRows(s)}
    /\ sites_assets = <<>>
    /\ site_assets_list = <<>>
    /\ pos = 0
    /\ all_assets = <<>>
    /\ all_gmvs = <<>>
    /\ site_gmv = <<>>
    /\ getter_log = <<>>
    /\ getter_result = <<>>
    /\ gphase = "init"

\* __call__ enters get_data: site_assets = list(self.assets_gen())
AssetsGen ==
    /\ gphase = "init"
    /\ \E fetched \in assets_gen_fetchall(exposure_data, getter_assets) :
          /\ sites_assets' = fetched
          /\ site_assets_list' = assets_gen_yield(fetched, getter_assets)
    /\ gphase' = "loop"
    /\ UNCHANGED <<getter_class, getter_assets, exposure_data, gmf_store, pos,
                   all_assets, all_gmvs, site_gmv, getter_log, getter_result,
                   notGetterVars>>

\* one round of the loop of get_data over site_assets
GetDataSite ==
    /\ gphase = "loop"
    /\ pos < Len(site_assets_list)
    /\ LET site_id  == site_assets_list[pos + 1][1]
           assets   == site_assets_list[pos + 1][2]
           n_assets == Len(assets)
       IN  /\ all_assets' = all_assets \o assets
           /\ CASE getter_class = "HazardCurveGetterPerAsset" ->
                     /\ all_gmvs' = all_gmvs \o Repeat(HazardCurves[site_id], n_assets)
                     /\ UNCHANGED <<site_gmv, getter_log>>
                [] getter_class = "ScenarioGetter" ->
                     LET got == get_gmvs(gmf_store[site_id], site_id)
                     IN  /\ all_gmvs' = IF got.gmvs # <<>>
                                        THEN all_gmvs \o Repeat(got.gmvs, n_assets)
                                        ELSE all_gmvs
                         /\ site_gmv' = Append(site_gmv,
                               [site_id |-> site_id, gmvs |-> got.gmvs,
                                ruptures |-> got.ruptures, n_assets |-> n_assets])
                         /\ getter_log' = getter_log \o got.warnings
                [] getter_class = "GroundMotionValuesGetter" ->
                     LET got == get_gmvs_ruptures(gmf_store[site_id], site_id)
                     IN  /\ site_gmv' = Append(site_gmv,
                               [site_id |-> site_id, gmvs |-> got.gmvs,
                                ruptures |-> got.ruptures, n_assets |-> n_assets])
                         /\ getter_log' = getter_log \o got.warnings
                         /\ UNCHANGED all_gmvs
    /\ pos' = pos + 1
    /\ UNCHANGED <<getter_class, getter_assets, exposure_data, gmf_store,
                   sites_assets, site_assets_list, getter_result, gphase,
                   notGetterVars>>

\* get_data returns and __call__ logs the assets without hazard
Call ==
    /\ gphase = "loop"
    /\ pos = Len(site_assets_list)
    /\ LET filled == fill_with_zeros(site_gmv)
           gmvs   == IF getter_class = "GroundMotionValuesGetter"
                     THEN filled[1] ELSE all_gmvs
           data   == IF getter_class = "GroundMotionValuesGetter"
                     THEN <<gmvs, filled[2]>> ELSE gmvs
           missing_asset_ids == asset_dict_keys(getter_assets) \ Range(all_assets)
       IN  /\ all_gmvs' = gmvs
           /\ IF all_assets = <<>>
              THEN /\ getter_log' = Append(getter_log,
                          [msg |-> "No hazard site found", id |-> 0])
                   /\ getter_result' = [assets |-> <<>>, data |-> <<>>]
              ELSE /\ getter_log' = getter_log \o
                          [n \in 1..Cardinality(missing_asset_ids) |->
                              [msg |-> "No hazard with imt",
                               id |-> sorted_ids(missing_asset_ids)[n]]]
                   /\ getter_result' = [assets |-> all_assets, data |-> data]
    /\ gphase' = "done"
    /\ UNCHANGED <<getter_class, getter_assets, exposure_data, gmf_store,
                   sites_assets, site_assets_list, pos, all_assets, site_gmv,
                   notGetterVars>>

(***************************************************************************)
(* BCRGetter: the hazard of the original and of the retrofitted model, got *)
(* by two GroundMotionValuesGetter built on the same hazard output, the    *)
(* same assets and the same maximum distance, each for the IMT of its      *)
(* model.  Each getter runs the query of assets_gen on its own.            *)
(***************************************************************************)
\* the IMTs of model_orig and model_retro
BcrImts == [orig |-> "PGA", retro |-> "PGV"]

\* the GmfData rows of the hazard output: IMT -> site id -> rows
BcrGmfData ==
    [imt \in {"PGA", "PGV"} |->
        [s \in DOMAIN HazardSites |->
            IF imt = "PGA"
            THEN <<[gmvs |-> <<s + 1>>, rupture_ids |-> <<1>>]>>
            ELSE <<[gmvs |-> <<s + 2>>, rupture_ids |-> <<1>>],
                   [gmvs |-> <<s + 3>>, rupture_ids |-> <<2>>]>>]]

\* GroundMotionValuesGetter.get_data for the rows assets_gen fetched
gmv_get_data(fetched, assets, imt) ==
    LET site_assets_of == assets_gen_yield(fetched, assets)
        sgmv == [n \in DOMAIN site_assets_of |->
                    LET site_id == site_assets_of[n][1]
                        got     == get_gmvs_ruptures(BcrGmfData[imt][site_id], site_id)
                    IN  [site_id |-> site_id, gmvs |-> got.gmvs,
                         ruptures |-> got.ruptures,
                         n_assets |-> Len(site_assets_of[n][2])]]
    IN  [assets |-> Concat([n \in DOMAIN site_assets_of |-> site_assets_of[n][2]]),
         data |-> fill_with_zeros(sgmv)]

\* HazardGetter.__call__ of a GroundMotionValuesGetter
getter_call(fetched, assets, imt) ==
    LET got == gmv_get_data(fetched, assets, imt)
    IN  IF got.assets = <<>> THEN [assets |-> <<>>, data |-> <<>>] ELSE got

BcrIdle ==
    /\ bcr_exposure = <<>>
    /\ bcr_assets = <<>>
    /\ bcr_orig = <<>>
    /\ bcr_retro = <<>>
    /\ bcr_result = <<>>
    /\ bcr_pc = "idle"

\* a BCRGetter after construction, for assets of one taxonomy
BcrInit ==
    /\ bcr_exposure \in [AssetIds -> [taxonomy : Taxonomies, site : AssetLocations]]
    /\ bcr_assets \in
          {sorted_ids(S) : S \in {T \in SUBSET AssetIds :
              /\ T # {}
              /\ \A a, b \in T : bcr_exposure[a].taxonomy = bcr_exposure[b].taxonomy}}
    /\ bcr_orig = <<>>
    /\ bcr_retro = <<>>
    /\ bcr_result = <<>>
    /\ bcr_pc = "init"

\* assets, orig = self.getter_orig(monitor)
BcrGetterOrig ==
    /\ bcr_pc = "init"
    /\ \E fetched \in assets_gen_fetchall(bcr_exposure, bcr_assets) :
          bcr_orig' = getter_call(fetched, bcr_assets, BcrImts.orig)
    /\ bcr_pc' = "orig"
    /\ UNCHANGED <<bcr_exposure, bcr_assets, bcr_retro, bcr_result, notBcrVars>>

\* _assets, retro = self.getter_retro(monitor); return assets, (orig, retro)
BcrGetterRetro ==
    /\ bcr_pc = "orig"
    /\ \E fetched \in assets_gen_fetchall(bcr_exposure, bcr_assets) :
          LET retro == getter_call(fetched, bcr_assets, BcrImts.retro)
          IN  /\ bcr_retro' = retro
              /\ bcr_result' = [assets |-> bcr_orig.assets,
                                data |-> <<bcr_orig.data, retro.data>>]
    /\ bcr_pc' = "done"
    /\ UNCHANGED <<bcr_exposure, bcr_assets, bcr_orig, notBcrVars>>

(***************************************************************************)
(* Persisting the output of one worker: RuptureCollector.save_ses_ruptures *)
(* and _save_gmfs, and the loop of the event_based_bcr task over all its   *)
(* calculation units, each inside transaction.commit_on_success on         *)
(* job_init.  An exception, of the computation or of a write, can leave    *)
(* the block after any number of records; the transaction is then rolled   *)
(* back, otherwise it is committed on exit.                                *)
(* writer.CacheInserter and writers.OutputDict are not part of the sources *)
(* at hand: following the specification the rows they are given belong to  *)
(* the transaction of the unit that calls them, be they written already or *)
(* still in the cache.                                                     *)
(***************************************************************************)
SaveUnits == {"save_ses_ruptures", "_save_gmfs", "event_based_bcr"}

\* inserter = writer.CacheInserter(models.GmfData, 1000): the rows the cache
\* holds before it is written out
max_cache_size == 2

\* the add calls that filled the collector that is saved
SaveAdds == CollSes \X CollRuptures \X {1, 2}

\* the _dd of the collectors that are saved: after at most two add calls
SaveCollectors ==
    {EmptyDD}
    \cup {add(EmptyDD, a[1], a[2][1], a[2], a[3]) : a \in SaveAdds}
    \cup {add(add(EmptyDD, a[1], a[2][1], a[2], a[3]), b[1], b[2][1], b[2], b[3]) :
             a \in SaveAdds, b \in SaveAdds}

\* the keys gmvs_per_site can have
SaveGmvKeys == {<<"PGA", 1>>, <<"PGA", 2>>, <<"PGV", 1>>}

\* for imt, site_id in gmvs_per_site: the orders a dict can be gone through
KeyOrders(K) ==
    {o \in [1..Cardinality(K) -> K] : \A i, j \in 1..Cardinality(K) : o[i] = o[j] => i = j}

\* the GmfData objects _save_gmfs hands to the inserter, in the order of the
\* loop
gmf_data_objects(gmf, gmvs_per_site, order, task_no) ==
    [n \in DOMAIN order |->
        [gmf |-> gmf, task_no |-> task_no, imt |-> order[n][1],
         site_id |-> order[n][2], gmvs |-> gmvs_per_site[order[n]]]]

\* the units of an event_based_bcr task and the hazard outputs each unit has
\* a getter for
MaxUnits == 2
MaxHazardOutputs == 2

\* the rows do_event_based_bcr writes for the units of task number task_no,
\* unit by unit and output by output
bcr_rows(task_no, n_units, n_outputs) ==
    [n \in 1..(n_units * n_outputs) |->
        [task_no |-> task_no, unit |-> ((n - 1) \div n_outputs) + 1,
         output_type |-> "bcr_distribution",
         hazard_output_id |-> ((n - 1) % n_outputs) + 1]]

\* rows other units committed before
EarlierRows(unit) ==
    CASE unit = "save_ses_ruptures" ->
            {[ses |-> all_ses[1], rupture |-> <<3, 1>>, tag |-> Tag(2, 1, 3, 0)]}
      [] unit = "_save_gmfs" ->
            {[gmf |-> 2, task_no |-> 1, imt |-> "PGA", site_id |-> 1, gmvs |-> <<7>>]}
      [] unit = "event_based_bcr" -> Range(bcr_rows(1, 1, 1))

\* outputdict.write(...): the row is written in the transaction of the caller
outputdict_write(rows, row) == Append(rows, row)

\* inserter.add(obj): the object goes to the cache, a full cache is written
\* out in the transaction of the caller
inserter_add(values, rows, obj) ==
    IF Len(values) + 1 >= max_cache_size
    THEN [values |-> <<>>, rows |-> rows \o Append(values, obj)]
    ELSE [values |-> Append(values, obj), rows |-> rows]

\* inserter.flush()
inserter_flush(values, rows) == [values |-> <<>>, rows |-> rows \o values]

\* transaction.commit_on_success: leaving the block without an exception
commit(rows, committed) == committed \cup Range(rows)

rollback_autocommit(rows, committed) == committed \cup Range(rows)

rollback_last_unit(rows, committed) ==
    committed \cup {r \in Range(rows) :
                       "unit" \in DOMAIN r /\ r.unit < rows[Len(rows)].unit}

\* transaction.commit_on_success: leaving the block with an exception
rollback(rows, committed) == committed

SaveIdle ==
    /\ save_unit = "none"
    /\ to_create = <<>>
    /\ created = 0
    /\ pending = <<>>
    /\ inserter_values = <<>>
    /\ table = {}
    /\ save_state = "idle"

\* a worker about to persist its collector or its ground motion values
SaveInit ==
    /\ save_unit \in SaveUnits
    /\ to_create \in
          CASE save_unit = "save_ses_ruptures" ->
                  {save_ses_ruptures([ses_collection |-> 1, ordinal |-> 0, dd |-> d]) :
                      d \in SaveCollectors}
            [] save_unit = "_save_gmfs" ->
                  UNION {{gmf_data_objects(1, [k \in K |-> <<5>>], o, 0) : o \in KeyOrders(K)} :
                            K \in SUBSET SaveGmvKeys}
            [] save_unit = "event_based_bcr" ->
                  {bcr_rows(2, n_units, n_outputs) :
                      n_units \in 1..MaxUnits, n_outputs \in 1..MaxHazardOutputs}
    /\ created = 0
    /\ pending = <<>>
    /\ inserter_values = <<>>
    /\ table \in {{}, EarlierRows(save_unit)}
    /\ save_state = "init"

\* with transaction.commit_on_success(using='job_init'): the block is entered
EnterTransaction ==
    /\ save_state = "init"
    /\ save_state' = "open"
    /\ UNCHANGED <<save_unit, to_create, created, pending, inserter_values,
                   table, notSaveVars>>

\* one round of the loop: SESRupture.objects.create(...), inserter.add(...)
\* or outputdict.write(...)
CreateRecord ==
    /\ save_state = "open"
    /\ created < Len(to_create)
    /\ CASE save_unit = "save_ses_ruptures" ->
               /\ pending' = Append(pending, to_create[created + 1])
               /\ UNCHANGED inserter_values
         [] save_unit = "_save_gmfs" ->
               LET added == inserter_add(inserter_values, pending, to_create[created + 1])
               IN  /\ pending' = added.rows
                   /\ inserter_values' = added.values
         [] save_unit = "event_based_bcr" ->
               /\ pending' = outputdict_write(pending, to_create[created + 1])
               /\ UNCHANGED inserter_values
    /\ created' = created + 1
    /\ UNCHANGED <<save_unit, to_create, table, save_state, notSaveVars>>

\* an exception leaves the block: the transaction is rolled back
RaiseInTransaction ==
    /\ save_state = "open"
    /\ table' = rollback(pending, table)
    /\ pending' = <<>>
    /\ inserter_values' = <<>>
    /\ save_state' = "rolled back"
    /\ UNCHANGED <<save_unit, to_create, created, notSaveVars>>

\* the loop is over: inserter.flush() in _save_gmfs, then the block is left
\* and the transaction committed
ExitTransaction ==
    /\ save_state = "open"
    /\ created = Len(to_create)
    /\ LET flushed == IF save_unit = "_save_gmfs"
                      THEN inserter_flush(inserter_values, pending)
                      ELSE [values |-> inserter_values, rows |-> pending]
       IN  /\ table' = commit(flushed.rows, table)
           /\ inserter_values' = flushed.values
    /\ pending' = <<>>
    /\ save_state' = "committed"
    /\ UNCHANGED <<save_unit, to_create, created, notSaveVars>>

(***************************************************************************)
(* SpecSes: one compute_ses task, loop round by loop round, with the       *)
(* values it hands to numpy.random.seed.                                   *)
(***************************************************************************)
\* the seeds task_arg_gen can have given to a source
SourceSeeds == {11, 12}

\* the states rnd = random.Random() can be in before it is seeded
UnseededStates == {1, 2}

\* the blocks of a task: distinct sources, each with a seed
SesBlocks ==
    UNION {{[n \in 1..len |-> <<o[n], sd[n]>>] :
               o \in {f \in [1..len -> Sources] :
                         \A a, b \in 1..len : f[a] = f[b] => a = b},
               sd \in [1..len -> SourceSeeds]} :
           len \in 1..Cardinality(Sources)}

seed_generator_skipped(state, seed) == state

\* rnd.seed(seed)
seed_generator(state, seed) == rnd_seed(seed)

SesIdle ==
    /\ cs_src_seeds = <<>>
    /\ cs_rnd = 0
    /\ cs_rupts = <<>>
    /\ cs_iter_calls = <<>>
    /\ cs_np_seeds = <<>>
    /\ cs_dd = EmptyDD
    /\ cs_i = 0
    /\ cs_k = 0
    /\ cs_pc = "idle"
    /\ cs_all_ses = <<>>
    /\ cs_saved = <<>>

\* compute_ses after rnd = random.Random() and the creation of the collector
SesInit ==
    /\ cs_src_seeds \in SesBlocks
    /\ cs_rnd \in UnseededStates
    /\ cs_rupts = <<>>
    /\ cs_iter_calls = [src \in Sources |-> 0]
    /\ cs_np_seeds = <<>>
    /\ cs_dd = EmptyDD
    /\ cs_i = 0
    /\ cs_k = 0
    /\ cs_pc = "source"
    /\ cs_all_ses = <<>>
    /\ cs_saved = <<>>

\* for src, seed in src_seeds: rnd.seed(seed); rupts = list(src.iter_ruptures())
NextSource ==
    /\ cs_pc = "source"
    /\ cs_i < Len(cs_src_seeds)
    /\ LET src  == cs_src_seeds[cs_i + 1][1]
           seed == cs_src_seeds[cs_i + 1][2]
       IN  /\ cs_rnd' = seed_generator(cs_rnd, seed)
           /\ cs_rupts' = iter_ruptures(src)
           /\ cs_iter_calls' = [cs_iter_calls EXCEPT ![src] = @ + 1]
    /\ cs_i' = cs_i + 1
    /\ cs_k' = 0
    /\ cs_pc' = "ses"
    /\ UNCHANGED <<cs_src_seeds, cs_np_seeds, cs_dd, cs_all_ses, cs_saved,
                   notSesVars>>

\* for ses in all_ses: numpy.random.seed(rnd.randint(0, MAX_SINT_32)) and
\* the sampling of every rupture of rupts
NextSes ==
    /\ cs_pc = "ses"
    /\ cs_k < Len(all_ses)
    /\ LET src == cs_src_seeds[cs_i][1]
           ses == all_ses[cs_k + 1]
           r1  == randint(cs_rnd)
       IN  /\ cs_rnd' = r1
           /\ cs_np_seeds' = Append(cs_np_seeds, <<src, ses, r1>>)
           /\ cs_dd' = sample_ruptures(cs_dd, ses, src, cs_rupts, np_seed(r1))
    /\ cs_k' = cs_k + 1
    /\ cs_pc' = IF cs_k + 1 = Len(all_ses) THEN "source" ELSE "ses"
    /\ UNCHANGED <<cs_src_seeds, cs_rupts, cs_iter_calls, cs_i, cs_all_ses,
                   cs_saved, notSesVars>>

\* the loop over src_seeds is over: collector.save_ses_ruptures(), then the
\* collector is returned
ReturnCollector ==
    /\ cs_pc = "source"
    /\ cs_i = Len(cs_src_seeds)
    /\ \E ses_list \in filter_ses_collection :
          /\ cs_all_ses' = ses_list
          /\ cs_saved' = save_ses_ruptures_from(ses_list,
                            [ses_collection |-> 1, ordinal |-> 0, dd |-> cs_dd])
    /\ cs_pc' = "returned"
    /\ UNCHANGED <<cs_src_seeds, cs_rnd, cs_rupts, cs_iter_calls, cs_np_seeds,
                   cs_dd, cs_i, cs_k, notSesVars>>

(***************************************************************************)
(* SpecColl: one collector, any sequence of add, clear and get_ruptures.   *)
(***************************************************************************)
CollIdle ==
    /\ dd = EmptyDD
    /\ addlog = <<>>
    /\ yielded = <<>>
    /\ calls = 0

\* collector.add(ses.ordinal, src.source_id, r, n), r a rupture of src
Add(ses_ordinal, rup, n) ==
    /\ Len(addlog) < MaxAdds
    /\ dd' = add(dd, ses_ordinal, rup[1], rup, n)
    /\ addlog' = Append(addlog, <<ses_ordinal, rup[1], rup, n>>)
    /\ yielded' = <<>>
    /\ calls' = 0
    /\ UNCHANGED <<notCollVars>>

Clear ==
    /\ addlog # <<>>
    /\ dd' = clear(dd)
    /\ addlog' = <<>>
    /\ yielded' = <<>>
    /\ calls' = 0
    /\ UNCHANGED <<notCollVars>>

\* list(collector.get_ruptures())
GetRuptures ==
    /\ calls < 2
    /\ LET r == get_ruptures(dd)
       IN  /\ yielded' = r.yield
           /\ dd' = r.dd
    /\ calls' = calls + 1
    /\ UNCHANGED <<addlog, notCollVars>>


(***************************************************************************)
(* Spec: two runs of one hazard job.  Run 1 has all the sources in one     *)
(* block, run 2 has the same ordered list cut into contiguous blocks; run  *)
(* 2 starts when run 1 is complete.  Within a run the compute_ses tasks    *)
(* run and complete in any order.                                          *)
(***************************************************************************)
Runs == {1, 2}

\* the contiguous slices of list that end at the cut points (and at its end)
RECURSIVE Slices(_, _, _)
Slices(list, cuts, from) ==
    IF from > Len(list) THEN <<>>
    ELSE LET to == IF \E c \in cuts : c >= from
                   THEN CHOOSE c \in cuts : c >= from /\ \A e \in cuts : e >= from => c <= e
                   ELSE Len(list)
         IN  <<SubSeq(list, from, to)>> \o Slices(list, cuts, to + 1)

Partitions(list) ==
    {Slices(list, cuts, 1) :
        cuts \in {c \in SUBSET (1..(Len(list) - 1)) :
                     Cardinality(c) >= 1 /\ Cardinality(c) < MaxBlocks}}

JobIdle ==
    /\ random_seed = 0
    /\ hc_gmf = FALSE
    /\ source_list = <<>>
    /\ source_blocks = <<>>
    /\ gen = <<>>
    /\ tasks = <<>>
    /\ collectors = <<>>
    /\ ses_rupture = <<>>
    /\ gmf_tasks = <<>>
    /\ gmf_data = <<>>
    /\ phase = <<>>

\* the state after pre_execute
JobInit ==
    /\ random_seed \in MasterSeeds
    /\ hc_gmf \in BOOLEAN
    /\ source_list \in SourceLists
    /\ \E bs \in Partitions(source_list) :
          source_blocks = [j \in Runs |-> IF j = 1 THEN <<source_list>> ELSE bs]
    /\ gen = [j \in Runs |->
                [rnd |-> rnd_seed(random_seed), rlz |-> 1, task_no |-> 0,
                 exhausted |-> FALSE]]
    /\ tasks = [j \in Runs |-> <<>>]
    /\ collectors = [j \in Runs |-> EmptyDD]
    /\ ses_rupture = [j \in Runs |-> {}]
    /\ gmf_tasks = [j \in Runs |-> <<>>]
    /\ gmf_data = [j \in Runs |-> {}]
    /\ phase = [j \in Runs |-> "execute"]

\* the state after pre_execute of a job and of its re-run: the same master
\* seed and the same source blocks, in one block or in several
RerunInit ==
    /\ random_seed \in MasterSeeds
    /\ hc_gmf \in BOOLEAN
    /\ source_list \in SourceLists
    /\ \E bs \in Partitions(source_list) \cup {<<source_list>>} :
          source_blocks = [j \in Runs |-> bs]
    /\ gen = [j \in Runs |->
                [rnd |-> rnd_seed(random_seed), rlz |-> 1, task_no |-> 0,
                 exhausted |-> FALSE]]
    /\ tasks = [j \in Runs |-> <<>>]
    /\ collectors = [j \in Runs |-> EmptyDD]
    /\ ses_rupture = [j \in Runs |-> {}]
    /\ gmf_tasks = [j \in Runs |-> <<>>]
    /\ gmf_data = [j \in Runs |-> {}]
    /\ phase = [j \in Runs |-> "execute"]

MayAct(j) == j = 1 \/ phase[1] = "complete"

\* task_arg_gen: the next (job_id, ss, ses_coll, task_no) tuple is yielded
\* and the task dispatched; after the last one the blocks are cleared
TaskArgGen(j) ==
    /\ MayAct(j)
    /\ phase[j] = "execute"
    /\ ~gen[j].exhausted
    /\ LET g      == gen[j]
           blocks == source_blocks[j]
           r      == block_seeds(g.rnd, blocks[g.task_no + 1])
           lastb  == g.task_no + 1 = Len(blocks)
           last   == lastb /\ g.rlz = Len(Realizations)
       IN  /\ tasks' = [tasks EXCEPT ![j] =
                  @ @@ (<<Realizations[g.rlz], g.task_no>> :>
                          [src_seeds |-> r.ss, status |-> "queued",
                           collector |-> <<>>])]
           /\ gen' = [gen EXCEPT ![j] =
                  [rnd |-> r.rnd,
                   rlz |-> IF lastb THEN g.rlz + 1 ELSE g.rlz,
                   task_no |-> IF lastb THEN 0 ELSE g.task_no + 1,
                   exhausted |-> last]]
           /\ source_blocks' = IF last THEN [source_blocks EXCEPT ![j] = <<>>]
                               ELSE source_blocks
    /\ UNCHANGED <<random_seed, hc_gmf, source_list, collectors, ses_rupture,
                   gmf_tasks, gmf_data, phase, notJobVars>>

\* a worker runs compute_ses: it fills a collector, saves its ruptures in
\* one transaction and returns the collector
ComputeSes(j, t) ==
    /\ t \in DOMAIN tasks[j]
    /\ tasks[j][t].status = "queued"
    /\ LET c    == compute_ses(tasks[j][t].src_seeds, t[1], t[2])
           recs == save_ses_ruptures(c)
       IN  /\ tasks' = [tasks EXCEPT ![j][t] =
                  [@ EXCEPT !.status = "returned", !.collector = c]]
           /\ ses_rupture' = [ses_rupture EXCEPT ![j] =
                  @ \cup {[task |-> t, pos |-> i, ses |-> recs[i].ses,
                           rupture |-> recs[i].rupture, tag |-> recs[i].tag] :
                          i \in DOMAIN recs}]
    /\ UNCHANGED <<random_seed, hc_gmf, source_list, source_blocks, gen,
                   collectors, gmf_tasks, gmf_data, phase, notJobVars>>

\* the coordinator receives one result: task_completed(collector)
TaskCompleted(j, t) ==
    /\ t \in DOMAIN tasks[j]
    /\ tasks[j][t].status = "returned"
    /\ tasks' = [tasks EXCEPT ![j][t].status = "completed"]
    /\ collectors' = [collectors EXCEPT ![j] =
           task_completed(@, tasks[j][t].collector)]
    /\ UNCHANGED <<random_seed, hc_gmf, source_list, source_blocks, gen,
                   ses_rupture, gmf_tasks, gmf_data, phase, notJobVars>>

\* post_execute: the collectors are sorted; with ground_motion_fields set,
\* compute_gmf_arg_gen is consumed, the compute_gmf tasks are dispatched and
\* self.collectors is cleared
PostExecute(j) ==
    /\ phase[j] = "execute"
    /\ gen[j].exhausted
    /\ \A t \in DOMAIN tasks[j] : tasks[j][t].status = "completed"
    /\ LET cs   == sort_collectors(collectors[j])
           args == compute_gmf_arg_gen(cs, random_seed)
       IN  IF hc_gmf
           THEN /\ gmf_tasks' = [gmf_tasks EXCEPT ![j] =
                       [i \in DOMAIN args |->
                           [gmf_coll |-> args[i].gmf_coll,
                            collector |-> args[i].collector,
                            seed |-> args[i].seed, status |-> "queued",
                            gmvs_per_site |-> <<>>]]]
                /\ collectors' = [collectors EXCEPT ![j] = EmptyDD]
                /\ phase' = [phase EXCEPT ![j] = "post_execute"]
           ELSE /\ collectors' = [collectors EXCEPT ![j] = cs]
                /\ phase' = [phase EXCEPT ![j] = "complete"]
                /\ UNCHANGED gmf_tasks
    /\ UNCHANGED <<random_seed, hc_gmf, source_list, source_blocks, gen, tasks,
                   ses_rupture, gmf_data, notJobVars>>

\* a worker runs compute_gmf: _compute_gmf, then _save_gmfs
ComputeGmf(j, i) ==
    /\ phase[j] = "post_execute"
    /\ i \in DOMAIN gmf_tasks[j]
    /\ gmf_tasks[j][i].status = "queued"
    /\ LET a == gmf_tasks[j][i]
           g == _compute_gmf(a.collector, a.seed)
       IN  /\ gmf_tasks' = [gmf_tasks EXCEPT ![j][i] =
                  [@ EXCEPT !.status = "done", !.gmvs_per_site = g]]
           /\ gmf_data' = [gmf_data EXCEPT ![j] =
                  @ \cup _save_gmfs(a.gmf_coll, g, a.collector.ordinal)]
    /\ UNCHANGED <<random_seed, hc_gmf, source_list, source_blocks, gen, tasks,
                   collectors, ses_rupture, phase, notJobVars>>

\* parallelize(compute_gmf, ...) returns: post_execute is over
PostExecuteDone(j) ==
    /\ phase[j] = "post_execute"
    /\ \A i \in DOMAIN gmf_tasks[j] : gmf_tasks[j][i].status = "done"
    /\ phase' = [phase EXCEPT ![j] = "complete"]
    /\ UNCHANGED <<random_seed, hc_gmf, source_list, source_blocks, gen, tasks,
                   collectors, ses_rupture, gmf_tasks, gmf_data, notJobVars>>

TaskIds == {<<Realizations[r], n>> : r \in DOMAIN Realizations, n \in 0..(MaxBlocks - 1)}

Init == JobInit /\ CollIdle /\ RiskIdle /\ GetterIdle /\ SaveIdle /\ SesIdle /\ BcrIdle

Next ==
    \/ \E j \in Runs : TaskArgGen(j)
    \/ \E j \in Runs, t \in TaskIds : ComputeSes(j, t)
    \/ \E j \in Runs, t \in TaskIds : TaskCompleted(j, t)
    \/ \E j \in Runs : PostExecute(j)
    \/ \E j \in Runs, i \in 1..(MaxBlocks * Len(Realizations)) : ComputeGmf(j, i)
    \/ \E j \in Runs : PostExecuteDone(j)

Spec == Init /\ [][Next]_vars

InitRerun == RerunInit /\ CollIdle /\ RiskIdle /\ GetterIdle /\ SaveIdle /\ SesIdle /\ BcrIdle

SpecRerun == InitRerun /\ [][Next]_vars

InitColl == CollIdle /\ JobIdle /\ RiskIdle /\ GetterIdle /\ SaveIdle /\ SesIdle /\ BcrIdle

NextColl ==
    \/ \E s \in CollSes, r \in CollRuptures, n \in CollCounts : Add(s, r, n)
    \/ Clear
    \/ GetRuptures

SpecColl == InitColl /\ [][NextColl]_vars

InitRisk == RiskInit /\ CollIdle /\ JobIdle /\ GetterIdle /\ SaveIdle /\ SesIdle /\ BcrIdle

NextRisk ==
    \/ PreExecuteStart
    \/ \E t \in Taxonomies : AssocSiteAssets(t)
    \/ \E t \in Taxonomies : UpdateDict(t)
    \/ PreExecuteFinish
    \/ RiskTaskArgGen

SpecRisk == InitRisk /\ [][NextRisk]_vars

InitGetter == GetterInit /\ CollIdle /\ JobIdle /\ RiskIdle /\ SaveIdle /\ SesIdle /\ BcrIdle

NextGetter ==
    \/ AssetsGen
    \/ GetDataSite
    \/ Call

SpecGetter == InitGetter /\ [][NextGetter]_vars

InitSave == SaveInit /\ CollIdle /\ JobIdle /\ RiskIdle /\ GetterIdle /\ SesIdle /\ BcrIdle

NextSave ==
    \/ EnterTransaction
    \/ CreateRecord
    \/ RaiseInTransaction
    \/ ExitTransaction

SpecSave == InitSave /\ [][NextSave]_vars

InitSes == SesInit /\ CollIdle /\ JobIdle /\ RiskIdle /\ GetterIdle /\ SaveIdle /\ BcrIdle

NextComputeSes ==
    \/ NextSource
    \/ NextSes
    \/ ReturnCollector

SpecSes == InitSes /\ [][NextComputeSes]_vars

InitBcr == BcrInit /\ CollIdle /\ JobIdle /\ RiskIdle /\ GetterIdle /\ SaveIdle /\ SesIdle

NextBcr ==
    \/ BcrGetterOrig
    \/ BcrGetterRetro

SpecBcr == InitBcr /\ [][NextBcr]_vars

(***************************************************************************)
(* Properties of the collector (SpecColl).                                 *)
(***************************************************************************)
\* the (src_id, rup) key of an add call of the log
LogKey(e) == <<e[2], e[3]>>

LogKeys(log) == {LogKey(e) : e \in Range(log)}

NonzeroKeys(log) == {LogKey(e) : e \in {x \in Range(log) : x[4] # 0}}

OnlyZeroKeys(log) == LogKeys(log) \ NonzeroKeys(log)

\* the nonzero (ses, n) pairs the log holds for key k, in call order
RECURSIVE PairsOf(_, _)
PairsOf(log, k) ==
    IF log = <<>> THEN <<>>
    ELSE (IF LogKey(log[1]) = k /\ log[1][4] # 0
          THEN <<(<<log[1][1], log[1][4]>>)>> ELSE <<>>)
         \o PairsOf(Tail(log), k)

CountsOf(log, k) == SumSeq([i \in DOMAIN PairsOf(log, k) |-> PairsOf(log, k)[i][2]])

TotalCount(log) == SumSeq([i \in DOMAIN log |-> log[i][4]])

Occurrences(s, x) == Cardinality({i \in DOMAIN s : s[i] = x})

\* C4: add with occurrence count 0 is a no-op: a (source, rupture) that was
\* only ever added with count 0 is no key of the collector, so it does not
\* count in len(collector), and get_ruptures() never yields it.
C4_ZeroCountNeverRecorded ==
    /\ \A k \in OnlyZeroKeys(addlog) :
          /\ k \notin DOMAIN dd
          /\ k[2] \notin Range(yielded)
    /\ collector_len(dd) <= Cardinality(LogKeys(addlog) \ OnlyZeroKeys(addlog))

\* C4 witness: a key added with count 0 only, next to a recorded key, after
\* get_ruptures() was iterated
C4_Witness ==
    /\ OnlyZeroKeys(addlog) # {}
    /\ calls > 0
    /\ yielded # <<>>

\* C5: get_ruptures() yields the ruptures sorted ascending by
\* (source_id, rupture); each key holds its (ses, count) pairs in the order
\* they were added and its rupture is yielded count times per pair, so the
\* number of yields is the sum of all recorded counts.
C5_CanonicalOrder ==
    /\ \A k \in DOMAIN dd : dd[k] = PairsOf(addlog, k)
    /\ calls > 0 =>
          /\ \A i, j \in DOMAIN yielded : i < j => ~RupLess(yielded[j], yielded[i])
          /\ \A k \in LogKeys(addlog) :
                Occurrences(yielded, k[2]) = CountsOf(addlog, k)
          /\ Len(yielded) = TotalCount(addlog)

\* C5 witness: two keys added out of order, one of them twice, iterated
C5_Witness ==
    /\ calls > 0
    /\ Len(addlog) = 3
    /\ \A e \in Range(addlog) : e[4] # 0
    /\ KeyLess(LogKey(addlog[2]), LogKey(addlog[1]))
    /\ LogKey(addlog[3]) = LogKey(addlog[1])
    /\ addlog[3][1] # addlog[1][1]

\* C6: len(collector) is the number of distinct (source_id, rupture) keys
\* added with a nonzero count, not the number of occurrences.
C6_LenCountsDistinctKeys ==
    collector_len(dd) = Cardinality(NonzeroKeys(addlog))

\* C6 witness: one key added for two SES, once with a count of 2
C6_Witness ==
    /\ collector_len(dd) = 1
    /\ \E k \in DOMAIN dd : Len(dd[k]) = 2 /\ dd[k][1][1] # dd[k][2][1]
    /\ TotalCount(addlog) = 3

\* C7: get_ruptures() is restartable: iterating it leaves the content and
\* the len of the collector unchanged, and a second iteration with no add
\* or clear in between yields the same sequence as the first.
C7_Restartable ==
    [][calls' = calls + 1 =>
          /\ dd' = dd
          /\ collector_len(dd') = collector_len(dd)
          /\ (calls >= 1 => yielded' = yielded)]_vars

\* C7 witness: a non-empty collector iterated twice
C7_Witness ==
    /\ calls = 2
    /\ yielded # <<>>
    /\ Len(yielded) > collector_len(dd)

(***************************************************************************)
(* Properties of the hazard job (Spec).                                    *)
(***************************************************************************)
RlzIndex(rlz) == CHOOSE r \in DOMAIN Realizations : Realizations[r] = rlz

\* the k-th value drawn from a generator in state rnd
RECURSIVE nth_draw(_, _)
nth_draw(rnd, k) == IF k = 1 THEN randint(rnd) ELSE nth_draw(randint(rnd), k - 1)

\* the number of sources dispatched for the realization of task t in the
\* blocks before the block of t
Offset(j, t) ==
    SumSeq([b \in 1..t[2] |-> Len(tasks[j][<<t[1], b - 1>>].src_seeds)])

\* the seed run j gave to source src for realization rlz
SeedsOf(j, rlz, src) ==
    UNION {{tasks[j][t].src_seeds[i][2] :
               i \in {n \in DOMAIN tasks[j][t].src_seeds :
                        tasks[j][t].src_seeds[n][1] = src}} :
           t \in {u \in DOMAIN tasks[j] : u[1] = rlz}}

\* C3: task_arg_gen seeds one generator once with the master seed and draws
\* one sub-seed per source in the order realization, block, source: the
\* source at position p of the list gets, for the r-th realization, the
\* ((r-1)*len(sources) + p)-th value of that generator; hence two block
\* counts over the same ordered list give every source the same sub-seed.
C3_SeedPerSource ==
    /\ \A j \in Runs : \A t \in DOMAIN tasks[j] :
          \A i \in DOMAIN tasks[j][t].src_seeds :
             LET q == Offset(j, t) + i
             IN  tasks[j][t].src_seeds[i] =
                    <<source_list[q],
                      nth_draw(rnd_seed(random_seed),
                               (RlzIndex(t[1]) - 1) * Len(source_list) + q)>>
    /\ \A rlz \in Range(Realizations) : \A src \in Sources :
          \A s1 \in SeedsOf(1, rlz, src) : \A s2 \in SeedsOf(2, rlz, src) : s1 = s2

\* C3 witness: both runs dispatched every task, the second run with a
\* source that is not the first of its block and one in a later block
C3_Witness ==
    /\ gen[1].exhausted
    /\ gen[2].exhausted
    /\ \E t \in DOMAIN tasks[2] : t[2] >= 1
    /\ \E t \in DOMAIN tasks[2] : Len(tasks[2][t].src_seeds) >= 2
    /\ \A rlz \in Range(Realizations) : \A src \in Sources :
          SeedsOf(1, rlz, src) # {} /\ SeedsOf(2, rlz, src) # {}

\* every task of run j was dispatched and has saved its ruptures
AllSaved(j) ==
    /\ gen[j].exhausted
    /\ \A t \in DOMAIN tasks[j] : tasks[j][t].status # "queued"

\* the tasks of run j for realization rlz that returned a collector
Returned(j, rlz) ==
    {t \in DOMAIN tasks[j] : t[1] = rlz /\ tasks[j][t].status # "queued"}

\* one collector holding every add call of the returned tasks of rlz
MergedDD(j, rlz) ==
    LET ts == Returned(j, rlz)
    IN  [k \in UNION {DOMAIN tasks[j][t].collector.dd : t \in ts} |->
            tasks[j][CHOOSE t \in ts : k \in DOMAIN tasks[j][t].collector.dd]
                .collector.dd[k]]

\* the canonical rupture sequence of realization rlz in run j
CanonicalSeq(j, rlz) == get_ruptures(MergedDD(j, rlz)).yield

\* the tags of that sequence, in its order
CanonicalTags(j, rlz) ==
    LET recs == save_ses_ruptures([ses_collection |-> rlz, ordinal |-> 0,
                                   dd |-> MergedDD(j, rlz)])
    IN  [i \in DOMAIN recs |-> recs[i].tag]

\* how many saved SESRupture records of run j have tag tg
SavedCount(j, tg) == Cardinality({row \in ses_rupture[j] : row.tag = tg})

SavedTags(j) == {row.tag : row \in ses_rupture[j]}

GmfTasksOf(j, rlz) ==
    {i \in DOMAIN gmf_tasks[j] : gmf_tasks[j][i].gmf_coll = rlz}

\* the (rupture, sub-seed) pairs of run j for realization rlz: each rupture
\* with the seed _compute_gmf passes to numpy before its ground motion field
SubSeeds(j, rlz) ==
    UNION {Range(rupture_seeds(gmf_tasks[j][i].collector, gmf_tasks[j][i].seed)) :
           i \in GmfTasksOf(j, rlz)}

\* run j went through post_execute and its compute_gmf tasks are done
GmfDone(j) == hc_gmf /\ phase[j] = "complete"

\* C2: for one master seed and the same sampled ruptures, every rupture gets
\* the same sub-seed for its ground motion field under the partition in one
\* collector as under the partition in several collectors.
C2_SameSubSeeds ==
    (GmfDone(1) /\ GmfDone(2)) =>
        \A rlz \in Range(Realizations) : SubSeeds(1, rlz) = SubSeeds(2, rlz)

\* the collectors of realization rlz that run j iterates after the sort of
\* post_execute (an empty collector yields nothing and gets no task)
SortedCollectors(j, rlz) ==
    IF hc_gmf
    THEN LET is == GmfTasksOf(j, rlz)
             f  == CHOOSE g \in [1..Cardinality(is) -> is] :
                      \A a, b \in 1..Cardinality(is) : a < b => g[a] < g[b]
         IN  [n \in 1..Cardinality(is) |-> gmf_tasks[j][f[n]].collector]
    ELSE IF rlz \in DOMAIN collectors[j] THEN collectors[j][rlz] ELSE <<>>

\* the ruptures a list of collectors yields, one collector after the other
Stream(cs) == Concat([n \in DOMAIN cs |-> get_ruptures(cs[n].dd).yield])

\* the collectors of the completed tasks of rlz in task_no order
CompletedInTaskOrder(j, rlz) ==
    LET ts == {t \in DOMAIN tasks[j] : t[1] = rlz /\ tasks[j][t].status = "completed"}
        f  == CHOOSE g \in [1..Cardinality(ts) -> ts] :
                 \A a, b \in 1..Cardinality(ts) : a < b => g[a][2] < g[b][2]
    IN  [n \in 1..Cardinality(ts) |-> tasks[j][f[n]].collector]

\* one collector holding every add call of the collectors of cs
MergedList(cs) ==
    [k \in UNION {DOMAIN cs[n].dd : n \in DOMAIN cs} |->
        cs[CHOOSE n \in DOMAIN cs : k \in DOMAIN cs[n].dd].dd[k]]

Ascending(list) == \A a, b \in DOMAIN list : a < b => list[a] < list[b]

Contributing(a) ==
    {q \in Range(ImtSitePairs) :
        \E rs \in Range(rupture_seeds(a.collector, a.seed)) :
           ground_motion_fields(rs[1], rs[2], q[1], q[2]) # 0}

\* C9: the mapping _compute_gmf returns has a key (imt, site_id) only if
\* some rupture gave a nonzero value for the pair; no key maps to an empty
\* list, no stored value is zero, and the rows _save_gmfs inserts are the
\* keys of the mapping.
C9_SparseGmvs ==
    \A j \in Runs : \A i \in DOMAIN gmf_tasks[j] :
        gmf_tasks[j][i].status = "done" =>
            LET a == gmf_tasks[j][i]
                g == a.gmvs_per_site
            IN  /\ DOMAIN g = {<<Imts[q[1]], Sites[q[2]]>> : q \in Contributing(a)}
                /\ \A k \in DOMAIN g :
                      /\ g[k] # <<>>
                      /\ \A n \in DOMAIN g[k] : g[k][n] # 0
                /\ {<<row.imt, row.site_id>> :
                       row \in {x \in gmf_data[j] : x.task_no = a.collector.ordinal
                                                    /\ x.gmf = a.gmf_coll}}
                       = DOMAIN g

\* C9 witness: a finished task whose ruptures reach one site and not the
\* other, so that its mapping has keys for the one only
C9_Witness ==
    \E j \in Runs : \E i \in DOMAIN gmf_tasks[j] :
        /\ gmf_tasks[j][i].status = "done"
        /\ DOMAIN gmf_tasks[j][i].gmvs_per_site # {}
        /\ \E q \in Range(ImtSitePairs) :
              <<Imts[q[1]], Sites[q[2]]>> \notin DOMAIN gmf_tasks[j][i].gmvs_per_site
        /\ Len(rupture_seeds(gmf_tasks[j][i].collector, gmf_tasks[j][i].seed)) >= 2

(***************************************************************************)
(* Properties of the risk calculator (SpecRisk).                           *)
(***************************************************************************)
\* how many entries of the lists of site_assets are asset a
Listings(a) ==
    SumSeq([n \in 1..Len(sorted_ids(DOMAIN site_assets)) |->
               Occurrences(site_assets[sorted_ids(DOMAIN site_assets)[n]], a)])

\* the hazard sites within the maximum distance of asset a
SitesWithin(a) ==
    {s \in DOMAIN HazardSites :
        ST_DWithin(exposure[a].site, HazardSites[s], best_maximum_distance)}

\* C10: after pre_execute every asset of the calculation is either in the
\* list of exactly one site of site_assets, once, and that site is a nearest
\* hazard site within the maximum distance, or in the missing assets, never
\* in both and never in neither; an asset with no site within the distance
\* is missing.
C10_OneSiteOrMissing ==
    rphase = "done" =>
        /\ \A a \in get_asset_chunk(exposure) :
              /\ Listings(a) + (IF a \in missing_assets THEN 1 ELSE 0) = 1
              /\ \A s \in DOMAIN site_assets :
                    a \in Range(site_assets[s]) =>
                       /\ s \in SitesWithin(a)
                       /\ \A q \in SitesWithin(a) :
                             ST_Distance(exposure[a].site, HazardSites[s])
                                <= ST_Distance(exposure[a].site, HazardSites[q])
              /\ SitesWithin(a) = {} => a \in missing_assets
        /\ missing_assets \subseteq get_asset_chunk(exposure)
        /\ \A s \in DOMAIN site_assets :
              Range(site_assets[s]) \subseteq get_asset_chunk(exposure)

\* C10 witness: pre_execute is over with an asset in the list of the nearer
\* of two sites within the distance, an asset listed for one of two sites
\* that are equally far, and a missing asset too far from every site
C10_Witness ==
    /\ rphase = "done"
    /\ \E a, b, c \in AssetIds :
          /\ exposure[a].site = 1 /\ Listings(a) = 1
          /\ exposure[b].site = 2 /\ Listings(b) = 1
          /\ exposure[c].site = 8 /\ c \in missing_assets

\* C11: the association is deterministic: the result an assoc_site_assets
\* task returned is the only result the query can return for the stored
\* exposure and hazard sites, also when two sites within the distance are
\* equally far from an asset, so that every run chooses the same site.
C11_SameSiteEveryRun ==
    \A t \in DOMAIN assoc :
        assoc[t].status # "queued" =>
            assoc_site_assets(exposure, t) = {assoc[t].result}

\* the validators that come before validator v in RiskCalculator.validators
Before(v) ==
    {validators[m] : m \in {n \in DOMAIN validators :
                               \E k \in DOMAIN validators : validators[k] = v /\ n < k}}

\* C12: a configuration error is raised before any work is dispatched: if
\* some validator reports an error, pre_execute raises at the first one of
\* the list that does, no assoc_site_assets task exists, nothing was reduced
\* and site_assets is not set; and pre_execute raises whenever a validator
\* reports an error.
C12_ErrorBeforeDispatch ==
    /\ (validator_errors # {} /\ rphase # "init") =>
          /\ rphase = "failed"
          /\ raised \in validator_errors
          /\ Before(raised) \cap validator_errors = {}
          /\ assoc = <<>>
          /\ site_asset_ids = EmptyDD
          /\ site_assets = <<>>
          /\ missing_assets = {}
    /\ raised \in Range(validators) => raised \in validator_errors

\* C12 witness: two validators report an error, the exposure has assets of
\* the region to associate, and pre_execute has raised the first error
C12_Witness ==
    /\ rphase = "failed"
    /\ Cardinality(validator_errors) >= 2
    /\ raised # validators[1]
    /\ DOMAIN taxonomies_asset_count # {}

(***************************************************************************)
(* Properties of the hazard getters (SpecGetter).                          *)
(***************************************************************************)
\* the site assets_gen yielded asset a with
YieldedSite(a) ==
    site_assets_list[CHOOSE n \in DOMAIN site_assets_list :
                        a \in Range(site_assets_list[n][2])][1]

\* the sites get_data got no values for
SitesWithoutGmvs == {site_gmv[n].site_id : n \in {m \in DOMAIN site_gmv : site_gmv[m].gmvs = <<>>}}

\* C13: a ScenarioGetter leaves out the assets of a site that has no
\* ground-motion values, so that the assets and the arrays it returns have
\* the same length and the i-th array holds the values of the site of the
\* i-th asset.
C13_AssetsAndArraysAligned ==
    (getter_class = "ScenarioGetter" /\ gphase = "done") =>
        LET assets == getter_result.assets
            arrays == getter_result.data
        IN  /\ \A i \in DOMAIN assets : YieldedSite(assets[i]) \notin SitesWithoutGmvs
            /\ Len(assets) = Len(arrays)
            /\ \A i \in DOMAIN assets \cap DOMAIN arrays :
                  arrays[i] = get_gmvs(gmf_store[YieldedSite(assets[i])],
                                       YieldedSite(assets[i])).gmvs

\* C14: when get_gmvs or get_gmvs_ruptures returned no value for a site, be
\* it that the site has no row at all, a 'No gmvs for site' warning of that
\* site is in the log.
C14_NoGmvsIsLogged ==
    \A s \in SitesWithoutGmvs : NoGmvsWarning(s) \in Range(getter_log)

\* the assets of the getter that have a hazard site within the distance
WithHazardSite ==
    {a \in Range(getter_assets) :
        \E h \in DOMAIN HazardSites :
            ST_DWithin(exposure_data[a].site, HazardSites[h], best_maximum_distance)}

\* C20: assets_gen yields only sites with assets of the getter, and those
\* assets only; the call returns assets of the getter, each at most once,
\* and all of them when each has a hazard site within the maximum distance.
C20_OwnAssetsOnce ==
    /\ \A n \in DOMAIN site_assets_list :
          /\ site_assets_list[n][2] # <<>>
          /\ Range(site_assets_list[n][2]) \subseteq Range(getter_assets)
    /\ gphase = "done" =>
          LET assets == getter_result.assets
          IN  /\ Range(assets) \subseteq Range(getter_assets)
              /\ \A i, j \in DOMAIN assets : assets[i] = assets[j] => i = j
              /\ WithHazardSite = Range(getter_assets) =>
                    Range(assets) = Range(getter_assets)

\* C20 witness: the query fetched a site that has only assets of other
\* getters, and the call returned every asset of the getter
C20_Witness ==
    /\ gphase = "done"
    /\ Range(getter_result.assets) = Range(getter_assets)
    /\ Len(getter_assets) >= 2
    /\ \E n \in DOMAIN sites_assets :
          Range(sites_assets[n][2]) \cap Range(getter_assets) = {}

InTaskOrder(j) ==
    [rlz \in {t[1] : t \in DOMAIN tasks[j]} |-> CompletedInTaskOrder(j, rlz)]

\* the arguments of the compute_gmf tasks of run j, in dispatch order
Dispatched(j) ==
    [i \in DOMAIN gmf_tasks[j] |->
        [gmf_coll |-> gmf_tasks[j][i].gmf_coll,
         collector |-> gmf_tasks[j][i].collector,
         seed |-> gmf_tasks[j][i].seed]]

\* C16: whatever order the compute_ses tasks completed in, post_execute
\* leaves the collectors of every SES collection in ascending ordinal
\* order; the collectors handed to compute_gmf, their order and the seed of
\* each are those of the collectors taken in task order.
C16_DispatchInTaskOrder ==
    \A j \in Runs :
        /\ phase[j] = "execute" =>
              compute_gmf_arg_gen(sort_collectors(collectors[j]), random_seed)
                 = compute_gmf_arg_gen(InTaskOrder(j), random_seed)
        /\ (phase[j] # "execute" /\ ~hc_gmf) =>
              /\ \A rlz \in DOMAIN collectors[j] :
                    \A a, b \in DOMAIN collectors[j][rlz] :
                       a < b => collectors[j][rlz][a].ordinal
                                   < collectors[j][rlz][b].ordinal
              /\ collectors[j] = InTaskOrder(j)
        /\ (phase[j] # "execute" /\ hc_gmf) =>
              Dispatched(j) = compute_gmf_arg_gen(InTaskOrder(j), random_seed)

\* C16 witness: post_execute of the second run dispatched two compute_gmf
\* tasks of one SES collection, the collector of the earlier task first
C16_Witness ==
    /\ phase[2] = "post_execute"
    /\ \E a, b \in DOMAIN gmf_tasks[2] :
          /\ a < b
          /\ gmf_tasks[2][a].gmf_coll = gmf_tasks[2][b].gmf_coll
          /\ gmf_tasks[2][a].collector.ordinal < gmf_tasks[2][b].collector.ordinal
          /\ gmf_tasks[2][a].seed # gmf_tasks[2][b].seed

(***************************************************************************)
(* Properties of a job and its re-run (SpecRerun).                         *)
(***************************************************************************)
\* the occurrence-sampling seeds compute_ses draws for a source with the
\* given seed, one per SES in SES order
SesSeeds(seed) == [i \in 1..NumSes |-> nth_draw(rnd_seed(seed), i)]

\* the SESRupture records run j holds of task t
RecordsOf(j, t) ==
    {[pos |-> r.pos, ses |-> r.ses, rupture |-> r.rupture, tag |-> r.tag] :
        r \in {q \in ses_rupture[j] : q.task = t}}

NpSeedsOf(src) == SelectSeq(cs_np_seeds, LAMBDA e : e[1] = src)

\* the part of a collector's _dd that source src filled
OfSource(d, src) == [k \in {q \in DOMAIN d : q[1] = src} |-> d[k]]

\* C18: compute_ses re-seeds the generator with the seed of each source,
\* lists the ruptures of the source once and draws exactly one seed per SES
\* in SES order; the seeds used for a source, and what it adds to the
\* collector, are those of a task that has this source alone with the same
\* seed, whatever the other sources of the block and its place in it.
C18_SeedsOfSourceOnly ==
    /\ \A n \in 1..cs_i :
          LET src  == cs_src_seeds[n][1]
              seed == cs_src_seeds[n][2]
              mine == NpSeedsOf(src)
              over == n < cs_i \/ cs_pc # "ses"
          IN  /\ cs_iter_calls[src] = 1
              /\ Len(mine) = IF over THEN NumSes ELSE cs_k
              /\ \A k \in DOMAIN mine :
                    mine[k] = <<src, all_ses[k], SesSeeds(seed)[k]>>
              /\ over => OfSource(cs_dd, src)
                            = compute_ses(<<cs_src_seeds[n]>>, 1, 0).dd
    /\ \A n \in (cs_i + 1)..Len(cs_src_seeds) :
          /\ cs_iter_calls[cs_src_seeds[n][1]] = 0
          /\ NpSeedsOf(cs_src_seeds[n][1]) = <<>>
    /\ cs_pc = "returned" => cs_dd = compute_ses(cs_src_seeds, 1, 0).dd

\* C18 witness: the task returned a collector for a block of several
\* sources, the last of which added ruptures
C18_Witness ==
    /\ cs_pc = "returned"
    /\ Len(cs_src_seeds) >= 2
    /\ OfSource(cs_dd, cs_src_seeds[Len(cs_src_seeds)][1]) # <<>>
    /\ Len(cs_np_seeds) = NumSes * Len(cs_src_seeds)

(***************************************************************************)
(* Properties of the calculation units (SpecRisk).                         *)
(***************************************************************************)
\* the assets of the units of taxonomy t of the b-th block at site s
UnitAssets(b, t, s) ==
    UNION {Range(u.site_assets[s]) :
           u \in {v \in task_args[b].calculation_units :
                     v.taxonomy = t /\ s \in DOMAIN v.site_assets}}

\* C19: with taxonomies_from_model set, task_arg_gen builds no calculation
\* unit for a taxonomy that is not in the risk models, and every asset of
\* site_assets whose taxonomy is in the risk models is in a unit of its
\* taxonomy in the block of its site, under its site.
C19_UnitsOfModelledTaxonomies ==
    (rphase = "dispatched" /\ taxonomies_from_model) =>
        /\ \A b \in DOMAIN task_args :
              \A u \in task_args[b].calculation_units : u.taxonomy \in risk_models
        /\ \A s \in DOMAIN site_assets : \A a \in Range(site_assets[s]) :
              exposure[a].taxonomy \in risk_models =>
                  \E b \in DOMAIN task_args :
                     /\ s \in Range(task_args[b].site_ids)
                     /\ a \in UnitAssets(b, exposure[a].taxonomy, s)
        /\ \A s \in DOMAIN site_assets :
              Cardinality({b \in DOMAIN task_args : s \in Range(task_args[b].site_ids)}) = 1

\* C19 witness: the exposure has an asset near a hazard site whose taxonomy
\* is not in the risk models, and units were built for two assets of a
\* taxonomy that is
C19_Witness ==
    /\ rphase = "dispatched"
    /\ taxonomies_from_model
    /\ \E a \in get_asset_chunk(exposure) :
          /\ exposure[a].taxonomy \notin risk_models
          /\ \E h \in DOMAIN HazardSites :
                ST_DWithin(exposure[a].site, HazardSites[h], best_maximum_distance)
    /\ \E b \in DOMAIN task_args : \E u \in task_args[b].calculation_units :
          \E s \in DOMAIN u.site_assets : Len(u.site_assets[s]) >= 2

(***************************************************************************)
(* GroundMotionValuesGetter.get_data: the arrays filled with zeros.        *)
(***************************************************************************)
\* the rupture ids the rows of the sites assets_gen yielded hold
RuptureIdsOfYielded ==
    UNION {UNION {Range(gmf_store[site_assets_list[n][1]][m].rupture_ids) :
                     m \in DOMAIN gmf_store[site_assets_list[n][1]]} :
              n \in DOMAIN site_assets_list}

\* the values the rows of site s hold for rupture r
StoredValues(s, r) ==
    UNION {{gmf_store[s][m].gmvs[k] :
               k \in {j \in DOMAIN gmf_store[s][m].gmvs
                            \cap DOMAIN gmf_store[s][m].rupture_ids :
                         gmf_store[s][m].rupture_ids[j] = r}} :
           m \in DOMAIN gmf_store[s]}

\* C21: a GroundMotionValuesGetter returns one array per returned asset;
\* the returned ruptures are the rupture ids of the rows of all the matched
\* sites, ascending and without duplicates; every array has one entry per
\* returned rupture, the value the site of the asset stores for that
\* rupture, or 0 when the site stores none.
C21_ZeroFilledArrays ==
    (getter_class = "GroundMotionValuesGetter" /\ gphase = "done"
        /\ getter_result.assets # <<>>) =>
        LET assets   == getter_result.assets
            arrays   == getter_result.data[1]
            ruptures == getter_result.data[2]
        IN  /\ Len(arrays) = Len(assets)
            /\ Range(ruptures) = RuptureIdsOfYielded
            /\ \A i, j \in DOMAIN ruptures : i < j => ruptures[i] < ruptures[j]
            /\ \A i \in DOMAIN arrays :
                  /\ Len(arrays[i]) = Len(ruptures)
                  /\ \A k \in DOMAIN ruptures :
                        LET stored == StoredValues(YieldedSite(assets[i]), ruptures[k])
                        IN  IF stored = {} THEN arrays[i][k] = 0
                            ELSE stored = {arrays[i][k]}

\* C21 witness: assets of two sites are returned, one site stores a value
\* for a rupture the other site has no value for, so a zero was filled in
C21_Witness ==
    /\ getter_class = "GroundMotionValuesGetter"
    /\ gphase = "done"
    /\ getter_result.assets # <<>>
    /\ Len(getter_result.data[2]) = 2
    /\ \E i, j \in DOMAIN getter_result.assets :
          /\ getter_result.data[1][i][2] = 0
          /\ getter_result.data[1][j][2] # 0
          /\ getter_result.data[1][i][1] # 0

(***************************************************************************)
(* Properties of the BCRGetter (SpecBcr).                                  *)
(***************************************************************************)
\* C22: the retrofitted getter of a BCRGetter returns the assets the
\* original getter returned, in the same order, so that the i-th entries of
\* the original and of the retrofitted data are the hazard of the i-th asset.
C22_SameAssetsSameOrder ==
    bcr_pc = "done" => bcr_retro.assets = bcr_orig.assets

(***************************************************************************)
(* The pairs a collector holds (SpecColl).                                 *)
(***************************************************************************)
\* the (ses_ordinal, count) pairs of the add calls of key k with a count
\* other than 0, in the order of the calls
RecordedPairs(log, k) ==
    LET of_key == SelectSeq(log, LAMBDA e : LogKey(e) = k /\ e[4] # 0)
    IN  [n \in DOMAIN of_key |-> <<of_key[n][1], of_key[n][4]>>]

\* C23: after any sequence of add and clear, every key of the collector has
\* a non-empty list of (ses_ordinal, count) pairs, every count is at least
\* 1, and the list holds one pair per add of the key with a count other
\* than 0, in the order of the calls, be they for several SES.
C23_RecordedCountsPositive ==
    \A k \in DOMAIN dd :
        /\ dd[k] # <<>>
        /\ \A n \in DOMAIN dd[k] : dd[k][n][2] >= 1
        /\ dd[k] = RecordedPairs(addlog, k)

\* C23 witness: an add with count 0 was made, and one rupture holds two
\* pairs, one per SES
C23_Witness ==
    /\ \E k \in DOMAIN dd :
          /\ Len(dd[k]) = 2
          /\ dd[k][1][1] # dd[k][2][1]
    /\ \E e \in Range(addlog) : e[4] = 0

(***************************************************************************)
(* The event_based_bcr task (SpecSave).                                    *)
(***************************************************************************)
\* the calculation units of the task at hand
UnitsOfTask == {to_create[n].unit : n \in DOMAIN to_create}

\* the committed BCR rows of unit u of the task at hand
PersistedOfUnit(u) ==
    {r \in table : "unit" \in DOMAIN r /\ r.unit = u /\ r.task_no = to_create[1].task_no}

\* C24: the event_based_bcr task writes the results of all its calculation
\* units in one transaction: when computing or writing a unit failed, no BCR
\* row of any unit of the task is persisted, the rows of the units written
\* before the failure included; when the task succeeded, every row of every
\* unit is.
C24_AllUnitsOrNone ==
    save_unit = "event_based_bcr" =>
        /\ save_state \in {"open", "rolled back"} =>
              \A u \in UnitsOfTask : PersistedOfUnit(u) = {}
        /\ save_state = "committed" =>
              \A n \in DOMAIN to_create : to_create[n] \in PersistedOfUnit(to_create[n].unit)

\* C24 witness: the task failed in its second unit, after every row of the
\* first unit was written
C24_Witness ==
    /\ save_unit = "event_based_bcr"
    /\ save_state = "rolled back"
    /\ created < Len(to_create)
    /\ created > 0
    /\ to_create[created].unit = 1
    /\ to_create[created + 1].unit = 2

(***************************************************************************)
(* The records save_ses_ruptures creates at the end of compute_ses         *)
(* (SpecSes).                                                              *)
(***************************************************************************)
\* the occurrence counts the collector of the task recorded
RecordedCounts ==
    UNION {{<<k, n, cs_dd[k][n][2]>> : n \in DOMAIN cs_dd[k]} : k \in DOMAIN cs_dd}

RECURSIVE SumOfCounts(_)
SumOfCounts(S) ==
    IF S = {} THEN 0
    ELSE LET c == CHOOSE x \in S : TRUE IN c[3] + SumOfCounts(S \ {c})

\* C25: save_ses_ruptures creates one record per element get_ruptures()
\* yields, in the same order; the records are as many as the sum of the
\* recorded occurrence counts, and a collector without a key creates none.
C25_RecordsAreCanonicalSequence ==
    cs_pc = "returned" =>
        /\ [n \in DOMAIN cs_saved |-> cs_saved[n].rupture] = get_ruptures(cs_dd).yield
        /\ Len(cs_saved) = SumOfCounts(RecordedCounts)
        /\ DOMAIN cs_dd = {} => cs_saved = <<>>

\* C25 witness: the collector of the task holds two ruptures, one of them
\* with a count of 2 or more, and its records were created
C25_Witness ==
    /\ cs_pc = "returned"
    /\ Cardinality(DOMAIN cs_dd) >= 2
    /\ \E c \in RecordedCounts : c[3] >= 2
    /\ Len(cs_saved) >= 3

\* C26: no two records created by save_ses_ruptures have the same tag, also
\* when two ruptures of one source occur in the same SES.
C26_DistinctTags ==
    cs_pc = "returned" =>
        \A i, j \in DOMAIN cs_saved : cs_saved[i].tag = cs_saved[j].tag => i = j

\* C28: every occurrence recorded with ses_ordinal k is attached to the SES
\* record of ordinal k, whatever the order the store returned the SES
\* records of the collection in.
C28_AttachedToSesOfOrdinal ==
    cs_pc = "returned" =>
        \A n \in DOMAIN cs_saved : cs_saved[n].ses = cs_saved[n].tag[2]

(***************************************************************************)
(* The dispatch of compute_gmf (SpecRerun).                                *)
(***************************************************************************)
\* the collectors of run j that hold a rupture, realization by realization
\* and, within one realization, in task order
NonEmptyCollectors(j) ==
    Concat([r \in DOMAIN Realizations |->
               SelectSeq(CompletedInTaskOrder(j, Realizations[r]),
                         LAMBDA c : DOMAIN c.dd # {})])

\* C27: compute_gmf_arg_gen dispatches one compute_gmf task per collector
\* that holds a rupture, none for a collector that holds none; the seed of
\* the k-th dispatched collector is the k-th draw of a generator seeded with
\* the master seed, so a collector without rupture consumes no draw; once
\* the generator is exhausted self.collectors is empty.
C27_OneSeedPerNonEmptyCollector ==
    \A j \in Runs :
        (phase[j] # "execute" /\ hc_gmf) =>
            LET expected == NonEmptyCollectors(j)
            IN  /\ Len(gmf_tasks[j]) = Len(expected)
                /\ \A k \in DOMAIN expected \cap DOMAIN gmf_tasks[j] :
                      /\ gmf_tasks[j][k].collector = expected[k]
                      /\ gmf_tasks[j][k].gmf_coll = expected[k].ses_collection
                      /\ gmf_tasks[j][k].seed = nth_draw(rnd_seed(random_seed), k)
                /\ collectors[j] = EmptyDD

\* C27 witness: the first run dispatched a collector that comes, in the
\* order of the loop, after a collector without rupture
C27_Witness ==
    /\ phase[1] # "execute"
    /\ hc_gmf
    /\ \E t, u \in DOMAIN tasks[1] :
          /\ RlzIndex(t[1]) < RlzIndex(u[1]) \/ (t[1] = u[1] /\ t[2] < u[2])
          /\ DOMAIN tasks[1][t].collector.dd = {}
          /\ \E k \in DOMAIN gmf_tasks[1] :
                gmf_tasks[1][k].collector = tasks[1][u].collector

(***************************************************************************)
(* The taxonomy grouping of task_arg_gen (SpecRisk).                       *)
(***************************************************************************)
\* taxonomy_site_assets of the block of the b-th argument list
BlockTaxonomySiteAssets(b) ==
    taxonomy_site_assets(<<>>, task_args[b].site_ids, site_assets, exposure,
                         taxonomies_from_model, risk_models)

\* the places asset a of site s holds in the lists of tsa
HeldAt(tsa, s, a) ==
    UNION {{<<t, n>> : n \in {m \in DOMAIN tsa[t][s] : tsa[t][s][m] = a}} :
           t \in {u \in DOMAIN tsa : s \in DOMAIN tsa[u]}}

\* C29: whatever order the association results of the taxonomies were
\* reduced in, the assets of one taxonomy are contiguous in
\* site_assets[site_id], and every asset of a site of a block is in exactly
\* one list of the taxonomy_site_assets of that block, the list of its
\* taxonomy and its site, unless its taxonomy is skipped: no group replaces
\* another.
C29_NoAssetLostByGrouping ==
    /\ \A s \in DOMAIN site_assets : \A i, j, k \in DOMAIN site_assets[s] :
          (i < j /\ j < k /\ exposure[site_assets[s][i]].taxonomy
                               = exposure[site_assets[s][k]].taxonomy) =>
              exposure[site_assets[s][j]].taxonomy = exposure[site_assets[s][i]].taxonomy
    /\ rphase = "dispatched" =>
          \A b \in DOMAIN task_args : \A s \in Range(task_args[b].site_ids) :
              \A a \in Range(site_assets[s]) :
                 LET held == HeldAt(BlockTaxonomySiteAssets(b), s, a)
                 IN  IF taxonomies_from_model /\ exposure[a].taxonomy \notin risk_models
                     THEN held = {}
                     ELSE /\ Cardinality(held) = 1
                          /\ \A h \in held : h[1] = exposure[a].taxonomy
                          /\ a \in UnitAssets(b, exposure[a].taxonomy, s)

\* C29 witness: a site has assets of two taxonomies, the results were
\* reduced so that an asset with a higher id comes first, and the argument
\* lists were built
C29_Witness ==
    /\ rphase = "dispatched"
    /\ \E s \in DOMAIN site_assets :
          /\ Len(site_assets[s]) = 3
          /\ site_assets[s][1] > site_assets[s][2]
          /\ exposure[site_assets[s][1]].taxonomy # exposure[site_assets[s][3]].taxonomy
          /\ \A a \in Range(site_assets[s]) :
                ~(taxonomies_from_model /\ exposure[a].taxonomy \notin risk_models)

====
